---- MODULE Spec2Model ----
(***************************************************************************)
(* Iridium VM: the register machine of src/src/vm.rs, the opcode table of  *)
(* src/src/opcode.rs and the two-pass assembler of src/src/assembler.      *)
(*                                                                         *)
(* Machine integers.  TLC evaluates with 32-bit signed integers, so        *)
(*   - an i32 is an Int in MinI32..MaxI32, and every arithmetic helper     *)
(*     below is written so that no intermediate value leaves that range;   *)
(*   - a u32 (the remainder field) is the pair <<hi, lo>> of its 16-bit    *)
(*     halves, value hi * 65536 + lo;                                      *)
(*   - a usize (pc, 64 bits) is the tuple <<l3, l2, l1, l0>> of its 16-bit *)
(*     limbs, most significant first.                                      *)
(* Rust's arithmetic overflow panics when the build has overflow checks    *)
(* (debug profile) and wraps otherwise (release profile): overflow_checks  *)
(* is chosen once, in Init, and never changes.                             *)
(***************************************************************************)
EXTENDS Integers, Sequences, FiniteSets, TLC

VARIABLES
    registers,        \* VM.registers: [i32; 32], indexed 0..31
    pc,               \* VM.pc: usize (limbs)
    program,          \* VM.program: Vec<u8>
    remainder,        \* VM.remainder: u32 (halves)
    equal_flag,       \* VM.equal_flag: bool
    heap,             \* VM.heap: Vec<u8>
    running,          \* "no", or how the VM::run call now in its loop began:
                      \* "fresh" on a VM that had executed nothing, else
                      \* "resumed"
    panicked,         \* "no", or the panic that ended the process
    overflow_checks,  \* build profile: TRUE = arithmetic overflow panics
    last,             \* the instruction the last completed step executed
    pass,             \* Assembler.pass
    symbol_table,     \* Assembler.symbol_table: label -> offset
    executable,       \* what the last Assembler::assemble call returned
    loads,            \* how many add_bytes calls the VM has served
    steps,            \* how many instructions the VM has fetched
    returned,         \* what the VM::run and VM::run_once calls that came
                      \* back handed to their caller
    assembler2,       \* a second Assembler: its pass, symbol_table, and
                      \* what its last assemble call returned
    instruction,      \* the AssemblyInstruction last given to to_bytes
    encoded,          \* the bytes the last to_bytes call that came back
                      \* returned (of an instruction, or of a Program)
    prog_instructions, \* Program.instructions of the Program last given
                      \* to run_pass1
    passes            \* how many run_pass1 calls the Assembler has served

vm_vars == <<registers, pc, program, remainder, equal_flag, heap>>
asm_vars == <<pass, symbol_table, executable, assembler2>>
enc_vars == <<instruction, encoded, prog_instructions, passes>>
vars == <<registers, pc, program, remainder, equal_flag, heap, running,
          panicked, overflow_checks, last, pass, symbol_table, executable,
          loads, steps, returned, assembler2, instruction, encoded,
          prog_instructions, passes>>

----------------------------------------------------------------------------
(* Bounds of the model.                                                    *)

\* add_bytes is called with a hand-assembled 4-byte word at most this often,
\* per family of words
MaxArithmeticWords == 4
MaxComparisonWords == 4
MaxJumpWords == 3
\* add_bytes is called with an assembled executable at most this often
MaxExecutables == 1
\* ALOC steps that would grow the heap beyond this are not explored
MaxHeap == 4
\* the VM fetches at most this many instructions
MaxSteps == 8
\* add_bytes is called at most this often with the bytes of an instruction
\* that is cut short or names no register
MaxFaultLoads == 2
\* add_bytes is called at most this often with an allocation word
MaxAlocWords == 4
\* a Program given to run_pass1 has at most this many records
MaxRecords == 3
\* run_pass1 is called at most this often on the Assembler
MaxPasses == 1
\* a word that is no mnemonic has at most this many letters
MaxWordLen == 3

----------------------------------------------------------------------------
(* Program constants.                                                      *)

MAX_REGISTERS == 32
INSTRUCTION_SIZE == 4
PADDING == 255
BIN_HEADER_LENGTH == 64
BIN_VERSION_OFFSET == 4
BIN_VERSION == 1
BIN_HEADER_PREFIX == <<65, 90, 65, 68>>

MaxI32 == 2147483647
MinI32 == -MaxI32 - 1
Limb == 65536
HalfLimb == 32768
MaxLimb == 65535

----------------------------------------------------------------------------
(* i32 arithmetic.                                                         *)

Lo16(x) == x % Limb
Hi16(x) == (x \div Limb) % Limb

\* the i32 whose two's complement halves are h, l
FromHalves(h, l) ==
    IF h >= HalfLimb THEN (h - Limb) * Limb + l ELSE h * Limb + l

AddOverflows(a, b) ==
    \/ b > 0 /\ a > MaxI32 - b
    \/ b < 0 /\ a < MinI32 - b

WrappingAdd(a, b) ==
    IF b > 0 /\ a > MaxI32 - b THEN ((a - MaxI32) - 1) + ((b - MaxI32) - 1)
    ELSE IF b < 0 /\ a < MinI32 - b THEN ((a + MaxI32) + 1) + ((b + MaxI32) + 1)
    ELSE a + b

SubOverflows(a, b) ==
    \/ b < 0 /\ a > MaxI32 + b
    \/ b > 0 /\ a < MinI32 + b

WrappingSub(a, b) ==
    IF b < 0 /\ a > MaxI32 + b THEN ((a - MaxI32) - 1) - ((b + MaxI32) + 1)
    ELSE IF b > 0 /\ a < MinI32 + b THEN ((a + MaxI32) + 1) - ((b - MaxI32) - 1)
    ELSE a - b

Abs(x) == IF x < 0 THEN -x ELSE x

\* does the exact product a * b fit an i32
MulFits(a, b) ==
    IF a = 0 \/ b = 0 THEN TRUE
    ELSE IF a = MinI32 THEN b = 1
    ELSE IF b = MinI32 THEN a = 1
    ELSE LET x == Abs(a)
             y == Abs(b)
             q == MaxI32 \div y
         IN  IF (a > 0) = (b > 0) THEN x <= q
             ELSE x <= q \/ (MaxI32 % y = y - 1 /\ x - 1 <= q)

\* x * y for 16-bit x, y, as the halves <<hi, lo>> of the 32-bit product
Mul16(x, y) ==
    LET p == (x \div 256) * y
        q == (x % 256) * y
        s == (p % 256) * 256 + q
    IN  <<(p \div 256) + (s \div Limb), s % Limb>>

WrappingMul(a, b) ==
    LET ll == Mul16(Lo16(a), Lo16(b))
        hl == Mul16(Hi16(a), Lo16(b))
        lh == Mul16(Lo16(a), Hi16(b))
    IN  FromHalves((ll[1] + hl[2] + lh[2]) % Limb, ll[2])

\* Rust's `/` and `%` on i32 truncate toward zero; b # 0 and <<a, b>> #
\* <<MinI32, -1>> here
TruncDivPos(a, b) ==
    IF a < 0 /\ a % b # 0 THEN (a \div b) + 1 ELSE a \div b

TruncDiv(a, b) ==
    IF b > 0 THEN TruncDivPos(a, b)
    ELSE IF b = MinI32 THEN (IF a = MinI32 THEN 1 ELSE 0)
    ELSE -TruncDivPos(a, -b)

TruncRem(a, b) ==
    IF b = MinI32 THEN (IF a = MinI32 THEN 0 ELSE a)
    ELSE a - b * TruncDiv(a, b)

DivPanics(a, b) == b = 0 \/ (a = MinI32 /\ b = -1)

\* `x as u32`
AsU32(x) == <<Hi16(x), Lo16(x)>>

----------------------------------------------------------------------------
(* usize arithmetic, on limbs.                                             *)

\* the usize with value n, 0 <= n <= MaxI32
USize(n) == <<0, 0, n \div Limb, n % Limb>>

\* `x as usize` for an i32 x: sign extension
AsUsize(x) ==
    IF x < 0 THEN <<MaxLimb, MaxLimb, Hi16(x), Lo16(x)>>
    ELSE <<0, 0, Hi16(x), Lo16(x)>>

\* is the usize p below the small natural n
UsizeBelow(p, n) ==
    p[1] = 0 /\ p[2] = 0 /\ p[3] < HalfLimb /\ p[3] * Limb + p[4] < n

\* the value of a usize that is at most MaxI32
UsizeVal(p) == p[3] * Limb + p[4]

\* p + q: [val |-> the sum modulo 2^64, over |-> whether it overflowed]
UsizeAdd(p, q) ==
    LET s4 == p[4] + q[4]
        s3 == p[3] + q[3] + (s4 \div Limb)
        s2 == p[2] + q[2] + (s3 \div Limb)
        s1 == p[1] + q[1] + (s2 \div Limb)
    IN  [val |-> <<s1 % Limb, s2 % Limb, s3 % Limb, s4 % Limb>>,
         over |-> s1 >= Limb]

\* p - q: [val |-> the difference modulo 2^64, over |-> whether it underflowed]
UsizeSub(p, q) ==
    LET d4 == p[4] - q[4]
        d3 == p[3] - q[3] - (IF d4 < 0 THEN 1 ELSE 0)
        d2 == p[2] - q[2] - (IF d3 < 0 THEN 1 ELSE 0)
        d1 == p[1] - q[1] - (IF d2 < 0 THEN 1 ELSE 0)
    IN  [val |-> <<d1 % Limb, d2 % Limb, d3 % Limb, d4 % Limb>>,
         over |-> d1 < 0]

----------------------------------------------------------------------------
(* Opcodes (src/src/opcode.rs).                                            *)

\* the variants of enum Opcode with discriminants 0..17, in that order
OpcodeNames ==
    <<"HLT", "LOAD", "ADD", "MUL", "SUB", "DIV", "JMP", "JMPF", "JMPB",
      "EQ", "NEQ", "GT", "GTE", "LT", "LTE", "JEQ", "JNEQ", "ALOC">>

IGL_CODE == 255

\* a faulty From<u8>: unknown codes become the first variant
OpcodeFromU8FirstVariant(v) ==
    IF v < Len(OpcodeNames) THEN OpcodeNames[v + 1] ELSE "HLT"

\* impl From<u8> for Opcode: FromPrimitive, unknown codes become IGL
OpcodeFromU8(v) ==
    IF v < Len(OpcodeNames) THEN OpcodeNames[v + 1] ELSE "IGL"

\* `opcode as u8`
OpcodeAsU8(op) ==
    IF op = "IGL" THEN IGL_CODE
    ELSE (CHOOSE i \in 1..Len(OpcodeNames) : OpcodeNames[i] = op) - 1

ComparisonOps == {"EQ", "NEQ", "GT", "GTE", "LT", "LTE"}
ArithmeticOps == {"ADD", "SUB", "MUL", "DIV"}

----------------------------------------------------------------------------
(* VM: fetch and decode.  Offsets k are zero-based, program[k + 1] is the  *)
(* byte at offset k.                                                       *)

NoInstruction ==
    [op |-> "NONE", at |-> 0, b1 |-> -1, b2 |-> -1, b3 |-> -1,
     a |-> 0, b |-> 0, flag |-> FALSE]

\* is offset k inside the loaded program (else program[k] panics)
InProgram(k) == k < Len(program)

\* VM::next_16_bits at offset k: u16::from(hi) << 8 | u16::from(lo)
next_16_bits(k) == program[k + 1] * 256 + program[k + 2]

\* a faulty i32_from_u16: the 16 bits are read as an i16 and sign-extended
i32_from_i16(num) == IF num >= HalfLimb THEN num - Limb ELSE num

\* i32::from(num) for num: u16
i32_from_u16(num) == num

\* the outcome of a step that panicked
Panic(why) ==
    [panic |-> why, capped |-> FALSE, registers |-> registers, pc |-> pc,
     remainder |-> remainder, equal_flag |-> equal_flag, heap |-> heap,
     is_done |-> FALSE, last |-> last]

\* the outcome of a step that completed
Done(regs, newpc, rem, flag, hp, done, rec) ==
    [panic |-> "no", capped |-> FALSE, registers |-> regs, pc |-> newpc,
     remainder |-> rem, equal_flag |-> flag, heap |-> hp,
     is_done |-> done, last |-> rec]

\* self.program[self.pc] with pc at or past the length of the program
ProgramPanic == Panic("program index out of bounds")

\* self.registers[i] with i >= 32
RegisterPanic == Panic("register index out of bounds")

\* can registers[program[k]] be read: the byte is there and is below 32
CanReadRegister(k) == InProgram(k) /\ program[k + 1] < MAX_REGISTERS

\* the panic of read_register at offset k when that cannot be read: the
\* byte is fetched first, then used as the index
IndexPanic(k) == IF InProgram(k) THEN RegisterPanic ELSE ProgramPanic

\* VM::read_register at offset k
read_register(k) == registers[program[k + 1]]

----------------------------------------------------------------------------
(* VM: the arms of execute_instruction, for an opcode byte at offset k.    *)

\* a faulty terminal arm: is_done stays false and the loop of run goes on
ExecHltGoesOn(op, k) ==
    Done(registers, USize(k + 1), remainder, equal_flag, heap, FALSE,
         [NoInstruction EXCEPT !.op = op, !.at = k, !.flag = equal_flag])

\* a faulty terminal arm: pc moves past the whole four-byte instruction
ExecHltSkipsWord(op, k) ==
    Done(registers, USize(k + INSTRUCTION_SIZE), remainder, equal_flag, heap,
         TRUE,
         [NoInstruction EXCEPT !.op = op, !.at = k, !.flag = equal_flag])

\* the arms that set is_done: Opcode::HLT, and the default arm, which the
\* opcode IGL of every unassigned byte reaches
ExecHlt(op, k) ==
    Done(registers, USize(k + 1), remainder, equal_flag, heap, TRUE,
         [NoInstruction EXCEPT !.op = op, !.at = k, !.flag = equal_flag])

ExecLoad(k) ==
    IF ~InProgram(k + 3) THEN ProgramPanic
    ELSE LET reg == program[k + 2]
             num == next_16_bits(k + 2)
         IN  IF reg >= MAX_REGISTERS THEN RegisterPanic
             ELSE Done([registers EXCEPT ![reg] = i32_from_u16(num)],
                       USize(k + 4), remainder, equal_flag, heap, FALSE,
                       [NoInstruction EXCEPT !.op = "LOAD", !.at = k,
                           !.b1 = reg, !.b2 = program[k + 3],
                           !.b3 = program[k + 4], !.a = num,
                           !.flag = equal_flag])

\* does reg1 <op> reg2 overflow an i32
ArithOverflows(op, a, b) ==
    CASE op = "ADD" -> AddOverflows(a, b)
      [] op = "SUB" -> SubOverflows(a, b)
      [] op = "MUL" -> ~MulFits(a, b)
      [] op = "DIV" -> FALSE

\* a faulty ArithResult: the operands are taken in the wrong order
ArithResultSwapped(op, a, b) ==
    CASE op = "ADD" -> WrappingAdd(b, a)
      [] op = "SUB" -> WrappingSub(b, a)
      [] op = "MUL" -> WrappingMul(b, a)
      [] op = "DIV" -> TruncDiv(a, b)

\* reg1 <op> reg2 in a build without overflow checks
ArithResult(op, a, b) ==
    CASE op = "ADD" -> WrappingAdd(a, b)
      [] op = "SUB" -> WrappingSub(a, b)
      [] op = "MUL" -> WrappingMul(a, b)
      [] op = "DIV" -> TruncDiv(a, b)

\* the remainder field after DIV: (reg1 % reg2) as u32
DivRemainder(a, b) == AsU32(TruncRem(a, b))

\* a faulty arithmetic arm: every arm stores reg1 % reg2, not DIV alone
ExecArithAlwaysRemainder(op, k) ==
    IF ~CanReadRegister(k + 1) THEN IndexPanic(k + 1)
    ELSE IF ~CanReadRegister(k + 2) THEN IndexPanic(k + 2)
    ELSE LET reg1 == read_register(k + 1)
             reg2 == read_register(k + 2)
         IN  IF op = "DIV" /\ reg2 = 0 THEN Panic("divide by zero")
             ELSE IF op = "DIV" /\ DivPanics(reg1, reg2)
                  THEN Panic("divide with overflow")
             ELSE IF overflow_checks /\ ArithOverflows(op, reg1, reg2)
                  THEN Panic("arithmetic overflow")
             ELSE IF ~CanReadRegister(k + 3) THEN IndexPanic(k + 3)
             ELSE Done([registers EXCEPT
                           ![program[k + 4]] = ArithResult(op, reg1, reg2)],
                       USize(k + 4),
                       IF reg2 # 0 THEN DivRemainder(reg1, reg2)
                       ELSE remainder,
                       equal_flag, heap, FALSE,
                       [op |-> op, at |-> k, b1 |-> program[k + 2],
                        b2 |-> program[k + 3], b3 |-> program[k + 4],
                        a |-> reg1, b |-> reg2, flag |-> equal_flag])

ExecArith(op, k) ==
    IF ~CanReadRegister(k + 1) THEN IndexPanic(k + 1)
    ELSE IF ~CanReadRegister(k + 2) THEN IndexPanic(k + 2)
    ELSE LET reg1 == read_register(k + 1)
             reg2 == read_register(k + 2)
         IN  IF op = "DIV" /\ reg2 = 0 THEN Panic("divide by zero")
             ELSE IF op = "DIV" /\ DivPanics(reg1, reg2)
                  THEN Panic("divide with overflow")
             ELSE IF overflow_checks /\ ArithOverflows(op, reg1, reg2)
                  THEN Panic("arithmetic overflow")
             ELSE IF ~CanReadRegister(k + 3) THEN IndexPanic(k + 3)
             ELSE Done([registers EXCEPT
                           ![program[k + 4]] = ArithResult(op, reg1, reg2)],
                       USize(k + 4),
                       IF op = "DIV" THEN DivRemainder(reg1, reg2)
                       ELSE remainder,
                       equal_flag, heap, FALSE,
                       [op |-> op, at |-> k, b1 |-> program[k + 2],
                        b2 |-> program[k + 3], b3 |-> program[k + 4],
                        a |-> reg1, b |-> reg2, flag |-> equal_flag])

\* the one-register instructions record the register byte and its value
OneRegister(op, k) ==
    [NoInstruction EXCEPT !.op = op, !.at = k, !.b1 = program[k + 2],
        !.a = read_register(k + 1), !.flag = equal_flag]

\* a faulty ExecJmp: the register byte itself is taken as the target
ExecJmpToIndex(k) ==
    IF ~CanReadRegister(k + 1) THEN IndexPanic(k + 1)
    ELSE Done(registers, USize(program[k + 2]), remainder, equal_flag, heap,
              FALSE, OneRegister("JMP", k))

ExecJmp(k) ==
    IF ~CanReadRegister(k + 1) THEN IndexPanic(k + 1)
    ELSE Done(registers, AsUsize(read_register(k + 1)), remainder,
              equal_flag, heap, FALSE, OneRegister("JMP", k))

\* a faulty JmpfTarget: the offset is added to the offset of the opcode byte
JmpfTargetFromOpcode(k, target) == UsizeAdd(USize(k), AsUsize(target))

\* pc after JMPF: the pc past the register byte, plus `target as usize`
JmpfTarget(k, target) == UsizeAdd(USize(k + 2), AsUsize(target))

\* pc after JMPB: the pc past the register byte, minus `target as usize`
JmpbTarget(k, target) == UsizeSub(USize(k + 2), AsUsize(target))

ExecJmpRelative(op, k) ==
    IF ~CanReadRegister(k + 1) THEN IndexPanic(k + 1)
    ELSE LET target == read_register(k + 1)
             moved == IF op = "JMPF" THEN JmpfTarget(k, target)
                      ELSE JmpbTarget(k, target)
         IN  IF overflow_checks /\ moved.over
             THEN Panic("arithmetic overflow")
             ELSE Done(registers, moved.val, remainder, equal_flag, heap,
                       FALSE, OneRegister(op, k))

\* is the u32 x below the u32 y
U32Below(x, y) == x[1] < y[1] \/ (x[1] = y[1] /\ x[2] < y[2])

\* a faulty Compare: the registers are compared as unsigned words
CompareUnsigned(op, r1, r2) ==
    CASE op = "EQ" -> r1 = r2
      [] op = "NEQ" -> r1 # r2
      [] op = "GT" -> U32Below(AsU32(r2), AsU32(r1))
      [] op = "GTE" -> ~U32Below(AsU32(r1), AsU32(r2))
      [] op = "LT" -> U32Below(AsU32(r1), AsU32(r2))
      [] op = "LTE" -> ~U32Below(AsU32(r2), AsU32(r1))

\* the value a comparison opcode stores in equal_flag
Compare(op, r1, r2) ==
    CASE op = "EQ" -> r1 = r2
      [] op = "NEQ" -> r1 # r2
      [] op = "GT" -> r1 > r2
      [] op = "GTE" -> r1 >= r2
      [] op = "LT" -> r1 < r2
      [] op = "LTE" -> r1 <= r2

\* a faulty ComparisonLength: the byte after the two registers is not skipped
ComparisonLengthUnpadded == INSTRUCTION_SIZE - 1

\* how far a comparison leaves pc past its opcode byte: opcode, two
\* registers, and the skipped byte
ComparisonLength == 4

ExecCompare(op, k) ==
    IF ~CanReadRegister(k + 1) THEN IndexPanic(k + 1)
    ELSE IF ~CanReadRegister(k + 2) THEN IndexPanic(k + 2)
    ELSE IF ~InProgram(k + 3) THEN ProgramPanic
    ELSE LET r1 == read_register(k + 1)
             r2 == read_register(k + 2)
         IN  Done(registers, USize(k + ComparisonLength), remainder,
                  Compare(op, r1, r2), heap, FALSE,
                  [op |-> op, at |-> k, b1 |-> program[k + 2],
                   b2 |-> program[k + 3], b3 |-> program[k + 4],
                   a |-> r1, b |-> r2, flag |-> equal_flag])

\* a faulty JumpTaken: JEQ and JNEQ are gated the wrong way round
JumpTakenInverted(op, flag) == IF op = "JEQ" THEN ~flag ELSE flag

\* does JEQ / JNEQ take its jump under the current flag
JumpTaken(op, flag) == IF op = "JEQ" THEN flag ELSE ~flag

\* a faulty JEQ / JNEQ: the flag is cleared once it has been tested
ExecJmpConditionalClearsFlag(op, k) ==
    IF ~CanReadRegister(k + 1) THEN IndexPanic(k + 1)
    ELSE Done(registers,
              IF JumpTaken(op, equal_flag)
              THEN AsUsize(read_register(k + 1)) ELSE USize(k + 2),
              remainder, FALSE, heap, FALSE, OneRegister(op, k))

ExecJmpConditional(op, k) ==
    IF ~CanReadRegister(k + 1) THEN IndexPanic(k + 1)
    ELSE Done(registers,
              IF JumpTaken(op, equal_flag)
              THEN AsUsize(read_register(k + 1)) ELSE USize(k + 2),
              remainder, equal_flag, heap, FALSE, OneRegister(op, k))

\* a vector of n zero bytes grown or cut to new_size, new bytes 0
Resize(hp, new_size) ==
    [i \in 1..new_size |-> IF i <= Len(hp) THEN hp[i] ELSE 0]

ExecAloc(k) ==
    IF ~CanReadRegister(k + 1) THEN IndexPanic(k + 1)
    ELSE LET sum == UsizeAdd(USize(Len(heap)), AsUsize(read_register(k + 1)))
             new_size == sum.val
         IN  IF overflow_checks /\ sum.over THEN Panic("arithmetic overflow")
             ELSE IF new_size[1] >= HalfLimb THEN Panic("capacity overflow")
             ELSE IF ~UsizeBelow(new_size, MaxHeap + 1)
                  THEN [Panic("no") EXCEPT !.capped = TRUE]
             ELSE Done(registers, USize(k + 2), remainder, equal_flag,
                       Resize(heap, UsizeVal(new_size)), FALSE,
                       OneRegister("ALOC", k))

\* INC (by = 1) and DEC (by = -1): registers[i] += 1, registers[i] -= 1
ExecIncDec(op, k) ==
    IF ~CanReadRegister(k + 1) THEN IndexPanic(k + 1)
    ELSE LET v == read_register(k + 1)
             by == IF op = "INC" THEN 1 ELSE -1
         IN  IF overflow_checks /\ AddOverflows(v, by)
             THEN Panic("arithmetic overflow")
             ELSE Done([registers EXCEPT ![program[k + 2]] = WrappingAdd(v, by)],
                       USize(k + 2), remainder, equal_flag, heap, FALSE,
                       OneRegister(op, k))

\* VM::decode_opcode at offset k
decode_opcode(k) == OpcodeFromU8(program[k + 1])

\* VM::execute_instruction when pc is inside the program
ExecuteAt(k) ==
    LET op == decode_opcode(k)
    IN  CASE op = "HLT" -> ExecHlt(op, k)
          [] op = "LOAD" -> ExecLoad(k)
          [] op \in ArithmeticOps -> ExecArith(op, k)
          [] op = "JMP" -> ExecJmp(k)
          [] op \in {"JMPF", "JMPB"} -> ExecJmpRelative(op, k)
          [] op \in ComparisonOps -> ExecCompare(op, k)
          [] op \in {"JEQ", "JNEQ"} -> ExecJmpConditional(op, k)
          [] op = "ALOC" -> ExecAloc(k)
          [] op \in {"INC", "DEC"} -> ExecIncDec(op, k)
          [] OTHER -> ExecHlt("IGL", k)

\* is pc at or past the end of the program
AtEnd == ~UsizeBelow(pc, Len(program))

\* a faulty execute_instruction: at the end of the program it rewinds pc
execute_instruction_rewinding ==
    IF AtEnd
    THEN Done(registers, USize(0), remainder, equal_flag, heap, TRUE, last)
    ELSE ExecuteAt(UsizeVal(pc))

\* VM::execute_instruction: the outcome of one step from the current state
execute_instruction ==
    IF AtEnd
    THEN Done(registers, pc, remainder, equal_flag, heap, TRUE, last)
    ELSE ExecuteAt(UsizeVal(pc))

\* the state change of one step with outcome out
Apply(out) ==
    /\ ~out.capped
    /\ IF out.panic # "no"
       THEN /\ panicked' = out.panic
            /\ UNCHANGED <<registers, pc, remainder, equal_flag, heap, last>>
       ELSE /\ registers' = out.registers
            /\ pc' = out.pc
            /\ remainder' = out.remainder
            /\ equal_flag' = out.equal_flag
            /\ heap' = out.heap
            /\ last' = out.last
            /\ UNCHANGED panicked
    /\ steps' = IF AtEnd THEN steps ELSE steps + 1
    /\ UNCHANGED <<program, overflow_checks, loads>>
    /\ UNCHANGED asm_vars
    /\ UNCHANGED enc_vars

----------------------------------------------------------------------------
(* Source text.  A &str is a sequence of one-character strings.            *)

LowerCase ==
    <<"a", "b", "c", "d", "e", "f", "g", "h", "i", "j", "k", "l", "m", "n",
      "o", "p", "q", "r", "s", "t", "u", "v", "w", "x", "y", "z">>
UpperCase ==
    <<"A", "B", "C", "D", "E", "F", "G", "H", "I", "J", "K", "L", "M", "N",
      "O", "P", "Q", "R", "S", "T", "U", "V", "W", "X", "Y", "Z">>
DigitChars == <<"0", "1", "2", "3", "4", "5", "6", "7", "8", "9">>

Range(f) == {f[i] : i \in DOMAIN f}
Alphabetic == Range(LowerCase) \cup Range(UpperCase)
Digit == Range(DigitChars)
\* what nom's multispace1 takes; str::trim strips these too
WhiteSpace == {" ", "\t", "\r", "\n"}

Take(s, n) == SubSeq(s, 1, n)
Drop(s, n) == SubSeq(s, n + 1, Len(s))

\* the length of the longest prefix of s made of characters of S
PrefixLen(S, s) ==
    CHOOSE n \in 0..Len(s) :
        /\ \A i \in 1..n : s[i] \in S
        /\ n = Len(s) \/ s[n + 1] \notin S

\* the length of the longest suffix of s made of characters of S
SuffixLen(S, s) ==
    CHOOSE n \in 0..Len(s) :
        /\ \A i \in (Len(s) - n + 1)..Len(s) : s[i] \in S
        /\ n = Len(s) \/ s[Len(s) - n] \notin S

\* str::trim
Trim(s) ==
    LET t == Drop(s, PrefixLen(WhiteSpace, s))
    IN  Take(t, Len(t) - SuffixLen(WhiteSpace, t))

\* char::to_uppercase on ASCII
ToUpper(c) ==
    IF c \in Range(LowerCase)
    THEN UpperCase[CHOOSE i \in DOMAIN LowerCase : LowerCase[i] = c]
    ELSE c

to_uppercase(s) == [i \in 1..Len(s) |-> ToUpper(s[i])]

DigitValue(c) == (CHOOSE i \in DOMAIN DigitChars : DigitChars[i] = c) - 1

\* str::parse of a digit string into an integer type with maximum limit:
\* the value, or -1 when it does not fit (parse returns Err)
RECURSIVE ParseDecimal(_, _, _)
ParseDecimal(ds, acc, limit) ==
    IF ds = <<>> THEN acc
    ELSE LET d == DigitValue(Head(ds))
         IN  IF acc > (limit - d) \div 10 THEN -1
             ELSE ParseDecimal(Tail(ds), acc * 10 + d, limit)

U8_MAX == 255

----------------------------------------------------------------------------
(* Tokens and instruction records (src/src/assembler/token.rs,             *)
(* assembly_instruction.rs).                                               *)

None == [type |-> "None"]
IsNone(t) == t.type = "None"
OpcodeToken(op) == [type |-> "Opcode", op |-> op]
Register(n) == [type |-> "Register", reg |-> n]
IntegerOperand(v) == [type |-> "IntegerOperand", v |-> v]
StringOperand(bytes) == [type |-> "StringOperand", bytes |-> bytes]
LabelDeclaration(name) == [type |-> "LabelDeclaration", name |-> name]
LabelUsage(name) == [type |-> "LabelUsage", name |-> name]
Directive(name) == [type |-> "Directive", name |-> name]

\* AssemblyInstruction { .., ..Default::default() }
AssemblyInstruction(opcode, operand1, operand2, operand3) ==
    [opcode |-> opcode, label |-> None, directive |-> None,
     operand1 |-> operand1, operand2 |-> operand2, operand3 |-> operand3]

\* the mnemonics of impl From<&str> for Opcode, in the order of OpcodeNames
Mnemonics ==
    <<<<"H", "L", "T">>,
      <<"L", "O", "A", "D">>,
      <<"A", "D", "D">>,
      <<"M", "U", "L">>,
      <<"S", "U", "B">>,
      <<"D", "I", "V">>,
      <<"J", "M", "P">>,
      <<"J", "M", "P", "F">>,
      <<"J", "M", "P", "B">>,
      <<"E", "Q">>,
      <<"N", "E", "Q">>,
      <<"G", "T">>,
      <<"G", "T", "E">>,
      <<"L", "T">>,
      <<"L", "T", "E">>,
      <<"J", "E", "Q">>,
      <<"J", "N", "E", "Q">>,
      <<"A", "L", "O", "C">>>>

\* impl From<&str> for Opcode
OpcodeFromStr(v) ==
    LET u == to_uppercase(v)
    IN  IF \E i \in DOMAIN Mnemonics : Mnemonics[i] = u
        THEN OpcodeNames[CHOOSE i \in DOMAIN Mnemonics : Mnemonics[i] = u]
        ELSE "IGL"

\* a faulty IntegerOperand arm: the bytes of to_le_bytes in their own order
IntegerOperandBytesLittleEndian(v) == <<v % 256, (v % Limb) \div 256>>

\* (*v as u16).to_le_bytes(), emitted as [bytes[1], bytes[0]]
IntegerOperandBytes(v) == <<(v % Limb) \div 256, v % 256>>

\* Token::to_bytes; <<-1>> stands for the unimplemented!() panic
TokenToBytes(t) ==
    CASE t.type = "Opcode" -> <<OpcodeAsU8(t.op)>>
      [] t.type = "Register" -> <<t.reg>>
      [] t.type = "IntegerOperand" -> IntegerOperandBytes(t.v)
      [] t.type = "StringOperand" -> t.bytes
      [] OTHER -> <<-1>>

\* a faulty padding loop: the record is filled up with zeros
PadWithZeros(bytes) ==
    bytes \o [i \in 1..(INSTRUCTION_SIZE - Len(bytes)) |-> 0]

\* the padding loop of AssemblyInstruction::to_bytes
Pad(bytes) ==
    bytes \o [i \in 1..(INSTRUCTION_SIZE - Len(bytes)) |-> PADDING]

OperandBytes(t) == IF IsNone(t) THEN <<>> ELSE TokenToBytes(t)

\* a faulty to_bytes: a record without opcode is taken for a directive
InstructionToBytesUnchecked(inst) ==
    LET head == IF ~IsNone(inst.opcode) THEN TokenToBytes(inst.opcode)
                ELSE <<>>
    IN  Pad(head \o OperandBytes(inst.operand1)
                 \o OperandBytes(inst.operand2)
                 \o OperandBytes(inst.operand3))

\* AssemblyInstruction::to_bytes; a sequence holding -2 stands for the
\* panic of the assertion on a record with neither opcode nor directive, one
\* holding -1 for the panic of unimplemented!() in Token::to_bytes
InstructionToBytes(inst) ==
    LET head == IF ~IsNone(inst.opcode) THEN TokenToBytes(inst.opcode)
                ELSE IF ~IsNone(inst.directive) THEN <<>>
                ELSE <<-2>>
    IN  Pad(head \o OperandBytes(inst.operand1)
                 \o OperandBytes(inst.operand2)
                 \o OperandBytes(inst.operand3))

\* the panic that ended a to_bytes call with these bytes, or "no": the
\* first of them that stands for a panic tells which
RECURSIVE PanicOf(_)
PanicOf(bytes) ==
    IF bytes = <<>> THEN "no"
    ELSE IF Head(bytes) = -2 THEN "assembler panic"
    ELSE IF Head(bytes) = -1 THEN "not implemented"
    ELSE PanicOf(Tail(bytes))

\* a faulty Program::to_bytes: each instruction replaces the result
ProgramToBytesLastOnly(instructions) ==
    IF instructions = <<>> THEN <<>>
    ELSE InstructionToBytes(instructions[Len(instructions)])

\* Program::to_bytes
RECURSIVE ProgramToBytes(_)
ProgramToBytes(instructions) ==
    IF instructions = <<>> THEN <<>>
    ELSE InstructionToBytes(Head(instructions))
             \o ProgramToBytes(Tail(instructions))

----------------------------------------------------------------------------
(* Parsers (src/src/assembler/parsers.rs).  A parser's result is           *)
(*   [res |-> "Ok", rest |-> the unconsumed input, val |-> the value],     *)
(*   [res |-> "Error"]    nom::Err::Error, which alt and many1 recover,    *)
(*   [res |-> "Failure"]  nom::Err::Failure, raised under cut,             *)
(*   [res |-> "Panic"]    an unwrap() of a failed str::parse.              *)

Ok(rest, val) == [res |-> "Ok", rest |-> rest, val |-> val]
Error == [res |-> "Error"]
Failure == [res |-> "Failure"]
ParsePanic == [res |-> "Panic"]

I32_MAX == 2147483647

\* F applied to the value of x, which is computed once
With(x, F(_)) == CHOOSE y \in {F(v) : v \in {x}} : TRUE

\* alpha1, then Opcode::from
OpcodeWord(s, n) ==
    IF n = 0 THEN Error
    ELSE Ok(Drop(s, n), OpcodeToken(OpcodeFromStr(Take(s, n))))

\* a faulty parse_opcode: a word that is no mnemonic is a parse error
OpcodeWordKnown(s, n) ==
    IF n = 0 \/ OpcodeFromStr(Take(s, n)) = "IGL" THEN Error
    ELSE OpcodeWord(s, n)
parse_opcode_rejecting(input) ==
    With(Trim(input),
         LAMBDA s : OpcodeWordKnown(s, PrefixLen(Alphabetic, s)))

parse_opcode(input) ==
    With(Trim(input), LAMBDA s : OpcodeWord(s, PrefixLen(Alphabetic, s)))

\* cut(digit1) on t with n leading digits, then str::parse(..).unwrap()
\* into an integer type with maximum limit
CutDigits(t, n, limit) ==
    IF n = 0 THEN Failure
    ELSE With(ParseDecimal(Take(t, n), 0, limit),
              LAMBDA v : IF v = -1 THEN ParsePanic ELSE Ok(Drop(t, n), v))

\* preceded(tag(sigil), cut(digit1)) on s, then the conversion
SigilNumber(sigil, s, limit) ==
    IF s = <<>> \/ Head(s) # sigil THEN Error
    ELSE CutDigits(Tail(s), PrefixLen(Digit, Tail(s)), limit)

parse_register(input) ==
    With(SigilNumber("$", Trim(input), U8_MAX),
         LAMBDA r : IF r.res = "Ok" THEN Ok(r.rest, Register(r.val)) ELSE r)

parse_number(input) ==
    With(SigilNumber("#", input, I32_MAX),
         LAMBDA r : IF r.res = "Ok" THEN Ok(r.rest, IntegerOperand(r.val))
                    ELSE r)

\* preceded(multispace1, P)
Spaced(P(_), input) ==
    With(PrefixLen(WhiteSpace, input),
         LAMBDA n : IF n = 0 THEN Error ELSE P(Drop(input, n)))

\* the operand parsers of a tuple, named by shape ("r": preceded(multispace1,
\* parse_register), "n": preceded(multispace1, parse_number)), applied in
\* turn; val is the sequence of their tokens
RECURSIVE Operands(_, _, _)
Operands(shape, input, acc) ==
    IF shape = <<>> THEN Ok(input, acc)
    ELSE With(IF Head(shape) = "r" THEN Spaced(parse_register, input)
              ELSE Spaced(parse_number, input),
              LAMBDA r : IF r.res # "Ok" THEN r
                         ELSE Operands(Tail(shape), r.rest,
                                       Append(acc, r.val)))

OperandAt(tokens, i) == IF i <= Len(tokens) THEN tokens[i] ELSE None

\* tuple((parse_opcode, ...))(input.trim()) and the record built of it
InstructionOfShape(shape, input) ==
    With(parse_opcode(Trim(input)),
         LAMBDA op :
             IF op.res # "Ok" THEN op
             ELSE With(Operands(shape, op.rest, <<>>),
                       LAMBDA r :
                           IF r.res # "Ok" THEN r
                           ELSE Ok(r.rest,
                                   AssemblyInstruction(op.val,
                                       OperandAt(r.val, 1),
                                       OperandAt(r.val, 2),
                                       OperandAt(r.val, 3)))))

parse_instruction0(input) == InstructionOfShape(<<>>, input)
parse_instruction1(input) == InstructionOfShape(<<"r", "n">>, input)
parse_instruction2(input) == InstructionOfShape(<<"r", "r", "r">>, input)
parse_instruction3(input) == InstructionOfShape(<<"r", "r">>, input)
parse_instruction4(input) == InstructionOfShape(<<"r">>, input)

\* alt((a, b)): b is tried only when a ends in a recoverable Error
Alt(a, b) == With(a, LAMBDA r : IF r.res = "Error" THEN b ELSE r)

parse_instruction(input) ==
    Alt(parse_instruction1(input),
        Alt(parse_instruction2(input),
            Alt(parse_instruction3(input),
                Alt(parse_instruction4(input),
                    parse_instruction0(input)))))

\* the loop of many1 once the first instruction is in acc
RECURSIVE ManyMore(_, _)
ManyMore(input, acc) ==
    With(parse_instruction(input),
         LAMBDA r : IF r.res = "Error" THEN Ok(input, acc)
                    ELSE IF r.res # "Ok" THEN r
                    ELSE IF r.rest = input THEN Error
                    ELSE ManyMore(r.rest, Append(acc, r.val)))

\* parse_program: many1(parse_instruction)(input.trim())
parse_program(input) ==
    With(parse_instruction(Trim(input)),
         LAMBDA r : IF r.res # "Ok" THEN r ELSE ManyMore(r.rest, <<r.val>>))

----------------------------------------------------------------------------
(* Assembler (src/src/assembler/mod.rs).                                   *)

\* a faulty generate_header: the version byte is never written
generate_header_unversioned ==
    [i \in 1..BIN_HEADER_LENGTH |->
        IF i <= Len(BIN_HEADER_PREFIX) THEN BIN_HEADER_PREFIX[i] ELSE 0]

\* Assembler::generate_header
generate_header ==
    [i \in 1..BIN_HEADER_LENGTH |->
        IF i <= Len(BIN_HEADER_PREFIX) THEN BIN_HEADER_PREFIX[i]
        ELSE IF i = BIN_VERSION_OFFSET + 1 THEN BIN_VERSION
        ELSE 0]

\* the label a record declares, or "" (has_label / get_label)
LabelOf(inst) ==
    IF inst.label.type = "LabelDeclaration" THEN inst.label.name ELSE ""

\* a faulty run_pass1: the offset advances on records with an opcode only
RECURSIVE Pass1OpcodesOnly(_, _, _)
Pass1OpcodesOnly(instructions, offset, st) ==
    IF instructions = <<>> THEN st
    ELSE LET name == LabelOf(Head(instructions))
             st1 == IF name = "" THEN st
                    ELSE [n \in DOMAIN st \cup {name} |->
                             IF n = name THEN offset ELSE st[n]]
             size == IF IsNone(Head(instructions).opcode) THEN 0
                     ELSE INSTRUCTION_SIZE
         IN  Pass1OpcodesOnly(Tail(instructions), offset + size, st1)

\* Assembler::run_pass1: the symbol table after walking instructions from
\* offset offset
RECURSIVE Pass1(_, _, _)
Pass1(instructions, offset, st) ==
    IF instructions = <<>> THEN st
    ELSE LET name == LabelOf(Head(instructions))
             st1 == IF name = "" THEN st
                    ELSE [n \in DOMAIN st \cup {name} |->
                             IF n = name THEN offset ELSE st[n]]
         IN  Pass1(Tail(instructions), offset + INSTRUCTION_SIZE, st1)

\* what Assembler::run_pass2 returns: prog.to_bytes(&self.symbol_table),
\* in which no to_bytes reads the symbol table
run_pass2_bytes(instructions) == ProgramToBytes(instructions)

\* what an assemble call returned: None or Some(bytes), with the source it
\* was given and whether the Assembler was then as Assembler::new() makes
\* it; source <<>> while no call has been made
NoExecutable ==
    [tag |-> "None", bytes |-> <<>>, source |-> <<>>, fresh |-> TRUE]

\* Assembler::new()
NewAssembler ==
    [pass |-> "First", symbol_table |-> <<>>, executable |-> NoExecutable]

\* a faulty assemble: the bytes of the call before stay in the buffer
ExecutableAppended(a, bytecode) ==
    a.executable.bytes \o generate_header \o bytecode

\* the bytes assemble returns: the header, then the bytecode of pass 2
Executable(a, bytecode) == generate_header \o bytecode

\* Assembler::assemble(prog) on the Assembler a: the panic it ends in, or
\* "no" with the Assembler it leaves and, in it, the Option it returns
Assembled(prog, a) ==
    With(parse_program(prog),
         LAMBDA parsed :
           LET fresh == a.pass = "First" /\ a.symbol_table = <<>>
               died(why) == [panic |-> why, assembler |-> a]
               left(b) == [panic |-> "no", assembler |-> b]
           IN  CASE parsed.res = "Ok" ->
                      With(run_pass2_bytes(parsed.val),
                           LAMBDA bytecode :
                             IF PanicOf(bytecode) # "no"
                             THEN died(PanicOf(bytecode))
                             ELSE left([pass |-> "Second",
                                        symbol_table |->
                                            Pass1(parsed.val, 0,
                                                  a.symbol_table),
                                        executable |->
                                            [tag |-> "Some",
                                             bytes |->
                                                 Executable(a, bytecode),
                                             source |-> prog,
                                             fresh |-> fresh]]))
                 [] parsed.res = "Panic" -> died("unwrap on Err")
                 [] OTHER ->
                      left([a EXCEPT !.executable =
                               [NoExecutable EXCEPT !.source = prog,
                                                    !.fresh = fresh]]))

----------------------------------------------------------------------------
(* Inputs: the source texts given to Assembler::assemble.                  *)

\* the program of test_assemble, each line led by white space as there (the
\* parsers take any run of white space alike)
SrcSum ==
    <<" ", "l", "o", "a", "d", " ", "$", "0", " ", "#", "2", "0", "\n", " ",
      " ", " ", "l", "o", "a", "d", " ", "$", "1", " ", "#", "3", "0", "\n",
      " ", " ", " ", "a", "d", "d", " ", "$", "0", " ", "$", "1", " ", "$",
      "2", "\n", " ", " ", " ", "h", "l", "t">>

\* one opcode-only instruction: "hlt"
SrcHlt ==
    <<"h", "l", "t">>

\* opcode + register, then opcode only: "JMP $31\nhlt"
SrcJmp ==
    <<"J", "M", "P", " ", "$", "3", "1", "\n", "h", "l", "t">>

\* opcode + two registers: "eq $0 $1"
SrcEq ==
    <<"e", "q", " ", "$", "0", " ", "$", "1">>

\* an immediate that does not fit 16 bits: "Load $1 #65536"
SrcWide ==
    <<"L", "o", "a", "d", " ", "$", "1", " ", "#", "6", "5", "5", "3", "6">>

\* a word that is no mnemonic: "foo $1"
SrcUnknown ==
    <<"f", "o", "o", " ", "$", "1">>

\* an instruction followed by text no parser takes: "hlt !"
SrcLeftover ==
    <<"h", "l", "t", " ", "!">>

\* text that starts with no opcode: "$0 hlt"
SrcNoOpcode ==
    <<"$", "0", " ", "h", "l", "t">>

\* a register sigil with no digits after an instruction: "hlt\njmp $x"
SrcBadRegister ==
    <<"h", "l", "t", "\n", "j", "m", "p", " ", "$", "x">>

\* a register number that does not fit a u8: "load $256 #1"
SrcBigRegister ==
    <<"l", "o", "a", "d", " ", "$", "2", "5", "6", " ", "#", "1">>

\* test_inc and test_dec as source text: "load $9 #10\ninc $9" and
\* "load $9 #22\ndec $9"
SrcInc ==
    <<"l", "o", "a", "d", " ", "$", "9", " ", "#", "1", "0", "\n",
      "i", "n", "c", " ", "$", "9">>
SrcDec ==
    <<"l", "o", "a", "d", " ", "$", "9", " ", "#", "2", "2", "\n",
      "d", "e", "c", " ", "$", "9">>

Sources ==
    {SrcSum,
     SrcHlt,
     SrcJmp,
     SrcEq,
     SrcWide,
     SrcUnknown,
     SrcLeftover,
     SrcNoOpcode,
     SrcBadRegister,
     SrcBigRegister}

----------------------------------------------------------------------------
(* Inputs: the hand-assembled instruction words given to VM::add_bytes.    *)

\* LOAD $0 #21, LOAD $1 #10, LOAD $1 #32768, ADD $0 $1 $31, ADD $1 $1 $1,
\* SUB $1 $0 $0, SUB $0 $1 $1, MUL $1 $1 $1, DIV $0 $1 $2
ArithmeticWords ==
    {<<1, 0, 0, 21>>, <<1, 1, 0, 10>>, <<1, 1, 128, 0>>, <<2, 0, 1, 31>>,
     <<2, 1, 1, 1>>, <<4, 1, 0, 0>>, <<4, 0, 1, 1>>, <<3, 1, 1, 1>>,
     <<5, 0, 1, 2>>}

\* LOAD $0 #5, SUB $1 $0 $0 (0 - 5 when $1 is untouched), the six
\* comparisons of $0 with $1 padded with 0xFF, and LT with a third byte
\* that names a register
ComparisonWords ==
    {<<1, 0, 0, 5>>, <<4, 1, 0, 0>>,
     <<9, 0, 1, 255>>, <<10, 0, 1, 255>>, <<11, 0, 1, 255>>,
     <<12, 0, 1, 255>>, <<13, 0, 1, 255>>, <<14, 0, 1, 255>>,
     <<13, 0, 1, 7>>}

\* LOAD $0 #4, LOAD $1 #2, SUB $1 $0 $0, JMP $0, JMPF $1, HLT, JMPB $1,
\* JMPF $0, JMPB $0, EQ $0 $1, JEQ $0, JNEQ $0.  The JMPF $1 word ends in
\* 1, 1 and the HLT word is 0, 2, 6, 0: entered at offset 2 of the pair,
\* the bytes 1, 1, 0, 2, 6, 0 read LOAD $1 #2, JMP $0
JumpWords ==
    {<<1, 0, 0, 4>>, <<1, 1, 0, 2>>, <<4, 1, 0, 0>>, <<6, 0, 255, 255>>,
     <<7, 1, 1, 1>>, <<0, 2, 6, 0>>, <<8, 1, 255, 255>>,
     <<7, 0, 255, 255>>, <<8, 0, 255, 255>>,
     <<9, 0, 1, 255>>, <<15, 0, 255, 255>>, <<16, 0, 255, 255>>}

\* LOAD $0 #2, LOAD $2 #1, ALOC $0, ALOC $2, SUB $1 $0 $0 (0 - 2 when $1 is
\* untouched), and ALOC $0 with the bytes 1, 0 after it: fetched at offset
\* 2 of the word they read LOAD $0 and an immediate in the next word
AlocWords ==
    {<<1, 0, 0, 2>>, <<1, 2, 0, 1>>, <<17, 0, 255, 255>>, <<17, 2, 255, 255>>,
     <<17, 0, 1, 0>>, <<4, 1, 0, 0>>}

----------------------------------------------------------------------------
(* The state machine.                                                      *)

\* no call of VM::run or VM::run_once has come back yet
NotReturned == "none"

\* VM::run and VM::run_once have no return type: whether the last step of
\* the call found pc at the end of the program or executed opcode op, the
\* caller receives the unit value ()
Returned(at_end, op) == "()"

\* VM::new(), Assembler::new(), and the build profile
Init ==
    /\ registers = [i \in 0..(MAX_REGISTERS - 1) |-> 0]
    /\ pc = USize(0)
    /\ program = <<>>
    /\ remainder = AsU32(0)
    /\ equal_flag = FALSE
    /\ heap = <<>>
    /\ running = "no"
    /\ panicked = "no"
    /\ overflow_checks \in BOOLEAN
    /\ last = NoInstruction
    /\ pass = "First"
    /\ symbol_table = <<>>
    /\ executable = NoExecutable
    /\ loads = 0
    /\ steps = 0
    /\ returned = NotReturned
    /\ assembler2 = NewAssembler
    /\ instruction = AssemblyInstruction(None, None, None, None)
    /\ encoded = <<>>
    /\ prog_instructions = <<>>
    /\ passes = 0

\* the process is alive and no call is in progress
Idle == panicked = "no" /\ running = "no"

\* VM::add_bytes(v)
add_bytes(v) ==
    /\ Idle
    /\ program' = program \o v
    /\ loads' = loads + 1
    /\ UNCHANGED <<steps, returned>>
    /\ UNCHANGED <<registers, pc, remainder, equal_flag, heap, running,
                   panicked, overflow_checks, last>>
    /\ UNCHANGED asm_vars
    /\ UNCHANGED enc_vars

\* add_bytes with one hand-assembled word of the family words
AddWord(words, most) ==
    \E w \in words : loads < most /\ add_bytes(w)

\* add_bytes(&program) with the bytes assemble returned, as test_assemble
\* and the REPL do
LoadExecutable ==
    /\ executable.tag = "Some"
    /\ loads < MaxExecutables
    /\ add_bytes(executable.bytes)

\* VM::run_once
run_once ==
    /\ Idle
    /\ AtEnd \/ steps < MaxSteps
    /\ \E out \in {execute_instruction} :
           /\ Apply(out)
           /\ returned' = IF out.panic = "no"
                          THEN Returned(AtEnd, out.last.op)
                          ELSE returned
    /\ UNCHANGED running

\* VM::run is called
run_enter ==
    /\ Idle
    /\ running' = IF last = NoInstruction /\ pc = USize(0) THEN "fresh"
                  ELSE "resumed"
    /\ UNCHANGED <<registers, pc, program, remainder, equal_flag, heap,
                   panicked, overflow_checks, last, loads, steps,
                   returned>>
    /\ UNCHANGED asm_vars
    /\ UNCHANGED enc_vars

\* one iteration of the loop of VM::run; the call returns when is_done
run_loop ==
    /\ panicked = "no"
    /\ running # "no"
    /\ AtEnd \/ steps < MaxSteps
    /\ \E out \in {execute_instruction} :
           /\ Apply(out)
           /\ running' = IF out.panic = "no" /\ out.is_done THEN "no"
                         ELSE running
           /\ returned' = IF out.panic = "no" /\ out.is_done
                          THEN Returned(AtEnd, out.last.op)
                          ELSE returned

\* Assembler::assemble(prog); callers assemble what they go on to load
assemble(prog) ==
    /\ Idle
    /\ loads < MaxExecutables
    /\ \E out \in {Assembled(prog, [pass |-> pass,
                                     symbol_table |-> symbol_table,
                                     executable |-> executable])} :
           /\ panicked' = out.panic
           /\ pass' = out.assembler.pass
           /\ symbol_table' = out.assembler.symbol_table
           /\ executable' = out.assembler.executable
    /\ UNCHANGED <<registers, pc, program, remainder, equal_flag, heap,
                   running, overflow_checks, last, loads, steps,
                   returned, assembler2>>
    /\ UNCHANGED enc_vars

\* assemble(prog) on the second Assembler
assemble2(prog) ==
    /\ Idle
    /\ \E out \in {Assembled(prog, assembler2)} :
           /\ panicked' = out.panic
           /\ assembler2' = out.assembler
    /\ UNCHANGED <<registers, pc, program, remainder, equal_flag, heap,
                   running, overflow_checks, last, loads, steps,
                   returned, pass, symbol_table, executable>>
    /\ UNCHANGED enc_vars

Assemble == \E prog \in Sources : assemble(prog)

\* add_bytes with the code section of the executable: the bytes that
\* Program::to_bytes returned, without the header
LoadCode ==
    /\ executable.tag = "Some"
    /\ loads < MaxExecutables
    /\ add_bytes(Drop(executable.bytes, BIN_HEADER_LENGTH))

\* assembling source text and running its code section
AssembleProgram == \E prog \in Sources \cup {SrcInc, SrcDec} : assemble(prog)
NextProgram ==
    AssembleProgram \/ LoadCode \/ run_once \/ run_enter \/ run_loop
SpecProgram == Init /\ [][NextProgram]_vars

\* the opcodes execute_instruction has an arm for, and their mnemonics:
\* those of From<&str>, then INC and DEC
InstructionSet == OpcodeNames \o <<"INC", "DEC">>
InstructionSetMnemonics ==
    Mnemonics \o <<<<"I", "N", "C">>, <<"D", "E", "C">>>>

\* char::to_lowercase on ASCII
ToLower(c) ==
    IF c \in Range(UpperCase)
    THEN LowerCase[CHOOSE i \in DOMAIN UpperCase : UpperCase[i] = c]
    ELSE c

\* a mnemonic in every mix of upper and lower case
CaseMixes(mnemonic) ==
    {[i \in 1..Len(mnemonic) |->
         IF i \in lower THEN ToLower(mnemonic[i]) ELSE mnemonic[i]] :
        lower \in SUBSET (1..Len(mnemonic))}
MnemonicSources ==
    UNION {CaseMixes(InstructionSetMnemonics[i]) :
               i \in DOMAIN InstructionSetMnemonics}

\* the decimal digits of n
RECURSIVE DecimalChars(_)
DecimalChars(n) ==
    IF n < 10 THEN <<DigitChars[n + 1]>>
    ELSE DecimalChars(n \div 10) \o <<DigitChars[(n % 10) + 1]>>

\* "load $n #1" for a register number n that fits a u8
SrcLoadRegister(n) ==
    <<"l", "o", "a", "d", " ", "$">> \o DecimalChars(n) \o <<" ", "#", "1">>

\* assembling a line that names any register of 0..255
AssembleRegister == \E n \in 0..U8_MAX : assemble(SrcLoadRegister(n))
NextRegisters == AssembleRegister
SpecRegisters == Init /\ [][NextRegisters]_vars

\* Lines that start with a word that is no mnemonic: the words of up to
\* MaxWordLen letters over l, t and x but "lt", alone, with a register, with
\* a register and a number, and with three registers
UnknownWords ==
    {w \in UNION {[1..n -> {"l", "t", "x"}] : n \in 1..MaxWordLen} :
        \A i \in DOMAIN Mnemonics : Mnemonics[i] # to_uppercase(w)}
OperandTails ==
    {<<>>, <<" ", "$", "1">>, <<" ", "$", "1", " ", "#", "5">>,
     <<" ", "$", "1", " ", "$", "2", " ", "$", "3">>}

\* assembling such a line on a new Assembler and running its code section
AssembleUnknown ==
    /\ executable = NoExecutable
    /\ \E w \in UnknownWords, tail \in OperandTails : assemble(w \o tail)
NextUnknown ==
    AssembleUnknown \/ LoadCode \/ run_once \/ run_enter \/ run_loop
SpecUnknown == Init /\ [][NextUnknown]_vars

\* assembling a line that is one mnemonic
AssembleMnemonic == \E prog \in MnemonicSources : assemble(prog)
NextMnemonic == AssembleMnemonic
SpecMnemonic == Init /\ [][NextMnemonic]_vars

\* assembling source text and running the executable
Next == Assemble \/ LoadExecutable \/ run_once \/ run_enter \/ run_loop
Spec == Init /\ [][Next]_vars

\* running hand-assembled arithmetic
AddArithmeticWord == AddWord(ArithmeticWords, MaxArithmeticWords)
NextArithmetic == AddArithmeticWord \/ run_once \/ run_enter \/ run_loop
SpecArithmetic == Init /\ [][NextArithmetic]_vars

\* running hand-assembled comparisons
AddComparisonWord == AddWord(ComparisonWords, MaxComparisonWords)
NextComparison == AddComparisonWord \/ run_once \/ run_enter \/ run_loop
SpecComparison == Init /\ [][NextComparison]_vars

\* running hand-assembled jumps
AddJumpWord == AddWord(JumpWords, MaxJumpWords)
NextJump == AddJumpWord \/ run_once \/ run_enter \/ run_loop
SpecJump == Init /\ [][NextJump]_vars

\* Records for AssemblyInstruction::to_bytes: every combination of an
\* opcode or none, a directive or none, and up to three operands, as the
\* public fields of the struct allow (the parsers build only some of them)
EncodeOpcodes ==
    {None, OpcodeToken("HLT"), OpcodeToken("LOAD"), OpcodeToken("JMP"),
     OpcodeToken("EQ")}
EncodeOperands == {None, Register(0), Register(10), IntegerOperand(99)}
EncodeInstructions ==
    {[AssemblyInstruction(op, o1, o2, o3) EXCEPT !.directive = d] :
        op \in EncodeOpcodes, d \in {None, Directive("asciiz")},
        o1 \in EncodeOperands, o2 \in EncodeOperands,
        o3 \in {None, Register(0)}}

\* inst.to_bytes(&st); the assertion on a record with neither opcode nor
\* directive panics
to_bytes(inst) ==
    /\ panicked = "no"
    /\ instruction' = inst
    /\ \E result \in {InstructionToBytes(inst)} :
           IF PanicOf(result) # "no"
           THEN panicked' = PanicOf(result) /\ UNCHANGED encoded
           ELSE encoded' = result /\ UNCHANGED panicked
    /\ UNCHANGED <<registers, pc, program, remainder, equal_flag, heap,
                   running, overflow_checks, last, loads, steps,
                   returned, prog_instructions, passes>>
    /\ UNCHANGED asm_vars

\* assembling on two Assemblers
Assemble2 == \E prog \in Sources : assemble2(prog)
NextTwoAssemblers == Assemble \/ Assemble2
SpecTwoAssemblers == Init /\ [][NextTwoAssemblers]_vars

\* encoding instruction records
NextEncode == \E inst \in EncodeInstructions : to_bytes(inst)
SpecEncode == Init /\ [][NextEncode]_vars

\* the values of Token::IntegerOperand: the 16-bit values with every high
\* byte next to a low byte at an edge and every low byte next to a high byte
\* at an edge, and i32 values of more than 16 bits
EdgeBytes == {0, 1, 127, 128, 254, 255}
Immediates ==
    {hi * 256 + lo : hi \in 0..255, lo \in EdgeBytes}
        \cup {hi * 256 + lo : hi \in EdgeBytes, lo \in 0..255}
        \cup {-1, -HalfLimb, Limb, Limb + 1, 70000, MaxI32, MinI32}

\* LOAD $0 #v is encoded, the bytes are given to a fresh VM, and the VM
\* steps through them
EncodeImmediate ==
    /\ encoded = <<>>
    /\ \E v \in Immediates :
           to_bytes(AssemblyInstruction(OpcodeToken("LOAD"), Register(0),
                                        IntegerOperand(v), None))
LoadEncoded ==
    /\ encoded # <<>>
    /\ program = <<>>
    /\ add_bytes(encoded)
NextImmediate == EncodeImmediate \/ LoadEncoded \/ run_once
SpecImmediate == Init /\ [][NextImmediate]_vars

\* Records of a Program with labels: hlt, a directive, a directive and an
\* instruction that each declare a label, and jumps that use the labels.
\* parse_program builds no record with a label (parse_instruction leaves
\* the label parsers out), the public fields of the structs do.
PassRecords ==
    LET hlt == AssemblyInstruction(OpcodeToken("HLT"), None, None, None)
        directive == [AssemblyInstruction(None, None, None, None)
                         EXCEPT !.directive = Directive("asciiz")]
    IN  {hlt,
         directive,
         [directive EXCEPT !.label = LabelDeclaration("start")],
         [hlt EXCEPT !.label = LabelDeclaration("done")],
         AssemblyInstruction(OpcodeToken("JMP"), LabelUsage("start"), None,
                             None),
         AssemblyInstruction(OpcodeToken("JMP"), LabelUsage("done"), None,
                             None)}
PassPrograms == UNION {[1..n -> PassRecords] : n \in 1..MaxRecords}

\* Assembler::run_pass1(prog), as assemble calls it: the first call, or a
\* call after the run_pass2 of the previous assemble has returned its bytes
run_pass1(p) ==
    /\ panicked = "no"
    /\ passes < MaxPasses
    /\ prog_instructions = <<>> \/ encoded # <<>>
    /\ passes' = passes + 1
    /\ prog_instructions' = p
    /\ symbol_table' = Pass1(p, 0, symbol_table)
    /\ pass' = "Second"
    /\ encoded' = <<>>
    /\ UNCHANGED <<registers, pc, program, remainder, equal_flag, heap,
                   running, panicked, overflow_checks, last, loads, steps,
                   returned, executable, assembler2, instruction>>

\* Assembler::run_pass2(prog), on the Program run_pass1 was given, as
\* assemble calls it
run_pass2 ==
    /\ panicked = "no"
    /\ prog_instructions # <<>>
    /\ encoded = <<>>
    /\ \E bytecode \in {run_pass2_bytes(prog_instructions)} :
           IF PanicOf(bytecode) # "no"
           THEN panicked' = PanicOf(bytecode) /\ UNCHANGED encoded
           ELSE encoded' = bytecode /\ UNCHANGED panicked
    /\ UNCHANGED <<registers, pc, program, remainder, equal_flag, heap,
                   running, overflow_checks, last, loads, steps, returned,
                   instruction, prog_instructions, passes>>
    /\ UNCHANGED asm_vars

\* the two passes over Programs with labels
RunPass1 == \E p \in PassPrograms : run_pass1(p)
NextPasses == RunPass1 \/ run_pass2
SpecPasses == Init /\ [][NextPasses]_vars

\* Byte sequences for add_bytes that put the VM at its limits: a register
\* byte of 32 or more (0xFF is what the assembler pads with, and what `jmp`
\* without operand encodes as its register), and instructions cut short,
\* which a later add_bytes may complete.
FaultPrograms ==
    { <<1, 0, 0, 5>>,          \* LOAD $0 #5
      <<1, 32, 0, 1>>,         \* LOAD, register byte 32
      <<2, 0, 255, 1>>,        \* ADD, second register byte 0xFF
      <<2, 0, 1, 32>>,         \* ADD, destination byte 32
      <<6, 255, 255, 255>>,    \* JMP, register byte 0xFF
      <<8, 32>>,               \* JMPB, register byte 32
      <<9, 0, 32, 255>>,       \* EQ, second register byte 32
      <<15, 255>>,             \* JEQ, register byte 0xFF
      <<17, 200>>,             \* ALOC, register byte 200
      <<1, 0, 0>>,             \* LOAD without its last byte
      <<1>>,                   \* LOAD without operands
      <<2, 0, 1>>,             \* ADD without its destination
      <<6>>,                   \* JMP without its register
      <<9, 0, 1>>,             \* EQ without its third byte
      <<17>> }                 \* ALOC without its register

\* running programs with bad register bytes and cut-short instructions
AddFaultBytes ==
    \E v \in FaultPrograms : loads < MaxFaultLoads /\ add_bytes(v)
NextFault == AddFaultBytes \/ run_once \/ run_enter \/ run_loop
SpecFault == Init /\ [][NextFault]_vars

\* running hand-assembled allocations
AddAlocWord == AddWord(AlocWords, MaxAlocWords)
NextAloc == AddAlocWord \/ run_once \/ run_enter \/ run_loop
SpecAloc == Init /\ [][NextAloc]_vars

\* a fresh VM is given one word with any byte as its opcode and zero
\* operand bytes, and steps through it
AddDecodeWord ==
    \E v \in 0..255 : program = <<>> /\ add_bytes(<<v, 0, 0, 0>>)
NextDecode == AddDecodeWord \/ run_once
SpecDecode == Init /\ [][NextDecode]_vars

----------------------------------------------------------------------------
(* Properties.  last is the instruction the most recent completed step     *)
(* executed, with the register values it read (a, b) and the flag it found *)
(* (flag); registers, pc, remainder and equal_flag change in no other      *)
(* step, so a state with last.op = X shows the machine as X left it.       *)

\* a step of execute_instruction that fetches an instruction
Fetch == (run_once \/ run_loop) /\ ~AtEnd
\* the offset of the instruction about to be fetched, and its opcode
At == UsizeVal(pc)
OpAt == decode_opcode(At)

\* the executable assembled from SrcSum is all the VM has loaded
SumLoaded ==
    /\ executable.tag = "Some"
    /\ executable.source = SrcSum
    /\ program = executable.bytes

\* C1: when run() returns on a fresh VM that was given the whole byte vector
\* assemble returned for load $0 #20 / load $1 #30 / add $0 $1 $2 / hlt,
\* reg[0] = 20, reg[1] = 30, reg[2] = 50 and the instruction that stopped
\* the run is the HLT of the code section (offset 64 + 12).
C1_RunOfAssembledSum ==
    [][(run_loop /\ running = "fresh" /\ running' = "no" /\ SumLoaded)
          => /\ registers'[0] = 20
             /\ registers'[1] = 30
             /\ registers'[2] = 50
             /\ last'.op = "HLT"
             /\ last'.at = BIN_HEADER_LENGTH + 3 * INSTRUCTION_SIZE]_vars

\* what that run does: the first header byte, 0x41, is no opcode, so the run
\* ends on it with pc = 1 and every register still 0
C1_StoppedInHeader ==
    /\ SumLoaded
    /\ running = "no"
    /\ last.op = "IGL"
    /\ last.at = 0
    /\ pc = USize(1)
    /\ \A i \in 0..(MAX_REGISTERS - 1) : registers[i] = 0

\* C2: whenever assemble returns bytes for a source that parses into n
\* instructions, they are 64 + 4n bytes: 0x41 0x5A 0x41 0x44, then 1, then
\* zeros up to offset 63, then the n four-byte encodings in source order;
\* for SrcSum the code section is LOAD,0,0,20, LOAD,1,0,30, ADD,0,1,2,
\* HLT,0xFF,0xFF,0xFF.
C2_Container ==
    executable.tag = "Some" =>
        LET bytes == executable.bytes
            parsed == parse_program(executable.source)
            n == Len(parsed.val)
        IN  /\ parsed.res = "Ok"
            /\ Len(bytes) = 64 + 4 * n
            /\ SubSeq(bytes, 1, 4) = <<65, 90, 65, 68>>
            /\ bytes[5] = 1
            /\ \A i \in 6..64 : bytes[i] = 0
            /\ \A i \in 1..n :
                   SubSeq(bytes, 64 + 4 * (i - 1) + 1, 64 + 4 * i)
                       = InstructionToBytes(parsed.val[i])
            /\ executable.source = SrcSum =>
                   SubSeq(bytes, 65, Len(bytes))
                       = <<1, 0, 0, 20, 1, 1, 0, 30, 2, 0, 1, 2,
                           0, 255, 255, 255>>

\* assemble has returned the 80 bytes of the four-instruction program
C2_SumAssembled ==
    /\ executable.tag = "Some"
    /\ executable.source = SrcSum
    /\ Len(executable.bytes) = 80
    /\ executable.bytes[65] = 1

\* r = a + b, r = a - b, r = a * b over the integers, for i32 r, a, b: an
\* i32 equals the exact result only if the exact result is an i32
IsSum(r, a, b) == ~AddOverflows(a, b) /\ r = a + b
IsDifference(r, a, b) == ~SubOverflows(a, b) /\ r = a - b
IsProduct(r, a, b) == MulFits(a, b) /\ r = a * b

\* -|x|, which is an i32 for every i32 x
NegAbs(x) == IF x > 0 THEN -x ELSE x

\* q is the quotient of a by b rounded toward zero: the rest a - q * b is
\* smaller than b in magnitude and is zero or has the sign of a
IsQuotient(q, a, b) ==
    LET r == a - q * b
    IN  /\ NegAbs(r) > NegAbs(b)
        /\ r = 0 \/ ((r > 0) = (a > 0))

\* C3 (as stated): for all a, b in reg[r1], reg[r2], a step on ADD / SUB /
\* MUL / DIV r1 r2 r3 leaves reg[r3] = a + b, a - b, a * b, a / b.
C3_ArithmeticOnAllIntegers ==
    /\ panicked # "arithmetic overflow"
    /\ last.op = "ADD" => IsSum(registers[last.b3], last.a, last.b)
    /\ last.op = "SUB" => IsDifference(registers[last.b3], last.a, last.b)
    /\ last.op = "MUL" => IsProduct(registers[last.b3], last.a, last.b)
    /\ last.op = "DIV" => IsQuotient(registers[last.b3], last.a, last.b)

\* the instruction at pc is an ADD, SUB or MUL whose exact result is no i32
OverflowAtPc ==
    /\ ~AtEnd
    /\ OpAt \in {"ADD", "SUB", "MUL"}
    /\ CanReadRegister(At + 1)
    /\ CanReadRegister(At + 2)
    /\ ArithOverflows(OpAt, read_register(At + 1), read_register(At + 2))

\* C3 (amended): the step leaves reg[r3] = a + b, a - b, a * b whenever that
\* value is an i32, and the quotient rounded toward zero on DIV; when it is
\* no i32, a build with overflow checks panics at the instruction and
\* writes nothing, and a build without them stores the value wrapped to 32
\* bits.
C3_ArithmeticWithinI32 ==
    /\ last.op = "ADD" =>
           IF AddOverflows(last.a, last.b)
           THEN /\ ~overflow_checks
                /\ registers[last.b3] = WrappingAdd(last.a, last.b)
           ELSE registers[last.b3] = last.a + last.b
    /\ last.op = "SUB" =>
           IF SubOverflows(last.a, last.b)
           THEN /\ ~overflow_checks
                /\ registers[last.b3] = WrappingSub(last.a, last.b)
           ELSE registers[last.b3] = last.a - last.b
    /\ last.op = "MUL" =>
           IF MulFits(last.a, last.b)
           THEN registers[last.b3] = last.a * last.b
           ELSE /\ ~overflow_checks
                /\ registers[last.b3] = WrappingMul(last.a, last.b)
    /\ last.op = "DIV" => IsQuotient(registers[last.b3], last.a, last.b)
    /\ panicked = "arithmetic overflow" => overflow_checks /\ OverflowAtPc

\* 2^30 + 2^30 was added in a build without overflow checks
C3_SumWrapped ==
    /\ last.op = "ADD"
    /\ last.a = 1073741824
    /\ last.b = 1073741824
    /\ registers[last.b3] = MinI32

\* the truth value of the comparison an opcode names, on signed x and y
Comparison(op, x, y) ==
    CASE op = "EQ" -> x = y
      [] op = "NEQ" -> x # y
      [] op = "GT" -> x > y
      [] op = "GTE" -> x >= y
      [] op = "LT" -> x < y
      [] op = "LTE" -> x <= y

\* C4: a step on EQ / NEQ / GT / GTE / LT / LTE R1 R2 leaves equal_flag
\* equal to the signed comparison of reg[R1] with reg[R2], whatever the
\* flag was before.
C4_ComparisonSetsFlag ==
    last.op \in ComparisonOps
        => equal_flag = Comparison(last.op, last.a, last.b)

\* GT found the flag true and cleared it, comparing a negative register
\* with 0
C4_FlagCleared ==
    /\ last.op = "GT"
    /\ last.a < 0
    /\ last.b = 0
    /\ last.flag
    /\ ~equal_flag

\* C5: a step on a comparison opcode at offset k leaves pc = k + 4, and the
\* state it leaves is fixed by the opcode and the two registers alone: the
\* third byte is not read as a register, so the step completes whatever
\* its value, and nothing but pc and equal_flag changes.
C5_ComparisonAdvancesFour ==
    [][(Fetch /\ OpAt \in ComparisonOps /\ CanReadRegister(At + 1)
              /\ CanReadRegister(At + 2) /\ InProgram(At + 3))
          => /\ panicked' = "no"
             /\ pc' = USize(At + 4)
             /\ equal_flag' = Comparison(OpAt, read_register(At + 1),
                                         read_register(At + 2))
             /\ registers' = registers
             /\ remainder' = remainder
             /\ heap' = heap
             /\ program' = program]_vars

\* LT with third byte 7 was executed at offset 4 and left pc = 8
C5_ThirdByteSeven ==
    /\ last.op = "LT"
    /\ last.b3 = 7
    /\ last.at = 4
    /\ pc = USize(8)

\* C6: a step on JMP R leaves pc = reg[R], the byte offset the register
\* holds (a negative register is cast with `as usize`, sign-extended, and
\* names no offset); with JMP $0 at offset 0 and reg[0] = 0 the step
\* returns with pc = 0 and the state it started from, so every further
\* run_once does the same and the loop of run() never ends.
C6_JmpAbsolute ==
    [][/\ (Fetch /\ OpAt = "JMP" /\ CanReadRegister(At + 1))
           => /\ panicked' = "no"
              /\ read_register(At + 1) >= 0
                     => pc' = USize(read_register(At + 1))
              /\ read_register(At + 1) < 0
                     => pc' = AsUsize(read_register(At + 1))
              /\ registers' = registers
              /\ equal_flag' = equal_flag
              /\ program' = program
       /\ (Fetch /\ OpAt = "JMP" /\ At = 0 /\ CanReadRegister(1)
                 /\ program[2] = 0 /\ registers[0] = 0)
           => /\ pc' = pc
              /\ running' = running]_vars

\* inside run() on a fresh VM, JMP $0 at offset 0 has been executed with
\* reg[0] = 0 and pc is 0 again
C6_JmpZeroLoops ==
    /\ running = "fresh"
    /\ last.op = "JMP"
    /\ last.at = 0
    /\ last.b1 = 0
    /\ last.a = 0
    /\ pc = USize(0)

\* C7: a step on JEQ R leaves pc = reg[R] when equal_flag is true and
\* passes on (pc = k + 2) when it is false; JNEQ R the other way round.
\* Neither changes the flag.
C7_ConditionalJump ==
    [][(Fetch /\ OpAt \in {"JEQ", "JNEQ"} /\ CanReadRegister(At + 1))
          => /\ panicked' = "no"
             /\ IF (OpAt = "JEQ") = equal_flag
                THEN /\ read_register(At + 1) >= 0
                            => pc' = USize(read_register(At + 1))
                     /\ read_register(At + 1) < 0
                            => pc' = AsUsize(read_register(At + 1))
                ELSE pc' = USize(At + 2)
             /\ equal_flag' = equal_flag
             /\ registers' = registers]_vars

\* EQ $0 $1 at offset 0 found the registers equal; JEQ $0 at offset 4 then
\* jumped to reg[0]
C7_JeqJumped ==
    /\ last.op = "JEQ"
    /\ last.at = 4
    /\ last.flag
    /\ equal_flag
    /\ pc = USize(last.a)
    /\ pc # USize(6)

\* C8: a step on JMPF R at offset k leaves pc = k + 2 + reg[R] and a step on
\* JMPB R leaves pc = k + 2 - reg[R] (JMPF at 0 with reg[R] = 2: pc = 4);
\* JMPB with reg[R] = 2 leaves pc on its own opcode byte and the rest of
\* the state as it was, so it is executed again without end.  When
\* k + 2 - reg[R] is negative, or reg[R] is, the usize arithmetic overflows:
\* a build with overflow checks panics, one without wraps modulo 2^64.
C8_RelativeJump ==
    [][(Fetch /\ OpAt \in {"JMPF", "JMPB"} /\ CanReadRegister(At + 1))
          => LET r == read_register(At + 1)
             IN  /\ (OpAt = "JMPF" /\ r >= 0 /\ r <= MaxI32 - (At + 2))
                        => panicked' = "no" /\ pc' = USize(At + 2 + r)
                 /\ (OpAt = "JMPB" /\ r >= 0 /\ r <= At + 2)
                        => panicked' = "no" /\ pc' = USize(At + 2 - r)
                 /\ (OpAt = "JMPB" /\ r = 2)
                        => /\ pc' = pc
                           /\ running' = running
                           /\ registers' = registers
                           /\ program' = program
                 /\ (OpAt = "JMPF" /\ r < 0)
                        => IF At + 2 + r >= 0
                           THEN IF overflow_checks
                                THEN panicked' = "arithmetic overflow"
                                ELSE pc' = USize(At + 2 + r)
                           ELSE panicked' = "no" /\ pc' = AsUsize(At + 2 + r)
                 /\ (OpAt = "JMPB" /\ (r < 0 \/ r > At + 2))
                        => IF overflow_checks
                           THEN panicked' = "arithmetic overflow"
                           ELSE IF r < 0 THEN pc' = USize((At + 2) - r)
                                ELSE pc' = AsUsize((At + 2) - r)
                 /\ registers' = registers
                 /\ equal_flag' = equal_flag]_vars

\* JMPF $1 at offset 0 was executed with reg[1] = 2 and left pc = 4
C8_JmpfFromZero ==
    /\ last.op = "JMPF"
    /\ last.at = 0
    /\ last.a = 2
    /\ pc = USize(4)

C10_RemainderIsMod ==
    (last.op = "DIV" /\ last.a # 0 /\ last.b # 0)
        => /\ remainder[1] < HalfLimb
           /\ LET r == remainder[1] * Limb + remainder[2]
              IN  /\ -r > NegAbs(last.b)
                  /\ (last.a - r) % (-NegAbs(last.b)) = 0
                  /\ (last.a = 21 /\ last.b = 10) => r = 1

\* DIV of -11 by 10 left the remainder field at 2^32 - 1
C10_NegativeDividend ==
    /\ last.op = "DIV"
    /\ last.a = -11
    /\ last.b = 10
    /\ registers[last.b3] = -1
    /\ remainder = <<MaxLimb, MaxLimb>>

\* C11: an iteration of the loop of run() ends the call exactly when it
\* finds pc at or past the end of the program, or decodes HLT, or decodes a
\* byte that is no opcode; after executing any other opcode inside the
\* program the call does not return.
C11_RunReturnsOnTerminal ==
    [][run_loop => ((running' = "no") <=> (AtEnd \/ OpAt \in {"HLT", "IGL"}))]_vars

\* a run() on a fresh VM has executed a JMP inside the program and is
\* still in its loop
C11_RunWentOn ==
    /\ running = "fresh"
    /\ last.op = "JMP"
    /\ ~AtEnd
    /\ returned = NotReturned

\* C12: when pc is at or past the end of the program, run_once, and every
\* iteration of run, changes none of pc, registers, equal_flag, remainder,
\* heap and program, and does not panic on a read past the end; run
\* returns in that iteration.
C12_NoOpAtEnd ==
    [][((run_once \/ run_loop) /\ AtEnd)
          => /\ UNCHANGED <<pc, registers, equal_flag, remainder, heap,
                            program>>
             /\ panicked' = "no"
             /\ running' = "no"]_vars

\* a call has come back from a fresh VM whose program is empty
C12_FreshEmpty ==
    /\ program = <<>>
    /\ returned = "()"
    /\ running = "no"
    /\ pc = USize(0)
    /\ last = NoInstruction
    /\ registers = [i \in 0..(MAX_REGISTERS - 1) |-> 0]

\* what a caller receives from a call that ended on HLT, or at the end of
\* the program after any instruction (or none)
NormalStatuses ==
    {Returned(FALSE, "HLT")}
        \cup {Returned(TRUE, op) : op \in Range(OpcodeNames) \cup {"NONE", "IGL"}}

\* C13: a run or run_once step that decodes a byte that is no opcode ends
\* the call without ending the process, and the caller receives a status
\* that differs from the one a HLT or the end of the program gives.
C13_IllegalOpcodeReported ==
    [][((run_once \/ run_loop) /\ ~AtEnd /\ OpAt = "IGL")
          => /\ panicked' = "no"
             /\ running' = "no"
             /\ returned' \notin NormalStatuses]_vars

\* a call has come back from a byte that is no opcode: pc is one past it,
\* and the caller holds (), as after every other call
C13_IllegalReturnedUnit ==
    /\ last.op = "IGL"
    /\ pc = USize(last.at + 1)
    /\ running = "no"
    /\ panicked = "no"
    /\ returned = "()"

\* C14: a step on DIV r1 r2 r3 with reg[r2] = 0 does not end the process;
\* it leaves every register and the remainder as they were (none receives a
\* value that no division defines) and ends the call.
C14_DivByZeroIsFault ==
    [][(Fetch /\ OpAt = "DIV" /\ CanReadRegister(At + 1)
              /\ CanReadRegister(At + 2) /\ read_register(At + 2) = 0)
          => /\ panicked' = "no"
             /\ registers' = registers
             /\ remainder' = remainder
             /\ running' = "no"]_vars

\* the process has died of the division: DIV $0 $1 $2 with reg[1] = 0
C14_DivideByZeroPanic ==
    /\ panicked = "divide by zero"
    /\ ~AtEnd
    /\ OpAt = "DIV"
    /\ read_register(At + 2) = 0
    /\ returned = NotReturned

\* how many operand bytes the arm of op fetches, and how many of them,
\* counted from the first, it uses as register indices
OperandsFetched(op) ==
    CASE op = "LOAD" -> 3
      [] op \in ArithmeticOps -> 3
      [] op \in ComparisonOps -> 3
      [] op \in {"JMP", "JMPF", "JMPB", "JEQ", "JNEQ", "ALOC", "INC", "DEC"} -> 1
      [] OTHER -> 0
RegistersNamed(op) ==
    CASE op = "LOAD" -> 1
      [] op \in ArithmeticOps -> 3
      [] op \in ComparisonOps -> 2
      [] op \in {"JMP", "JMPF", "JMPB", "JEQ", "JNEQ", "ALOC", "INC", "DEC"} -> 1
      [] OTHER -> 0

\* the instruction at pc is whole, and one of its register bytes is 32 or more
BadRegisterAtPc ==
    /\ ~AtEnd
    /\ InProgram(At + OperandsFetched(OpAt))
    /\ \E i \in 1..RegistersNamed(OpAt) : program[At + i + 1] >= MAX_REGISTERS

\* C15: a step on an instruction with a register byte of 32 or more (0xFF
\* included) does not end the process: the register file is not indexed
\* out of 0..31, no register changes, and the call ends, for every opcode
\* that names a register.
C15_RegisterIndexChecked ==
    [][((run_once \/ run_loop) /\ BadRegisterAtPc)
          => /\ panicked' = "no"
             /\ registers' = registers
             /\ running' = "no"]_vars

\* the process has died indexing the register file with 0xFF, on a JMP
C15_RegisterIndexPanic ==
    /\ panicked = "register index out of bounds"
    /\ BadRegisterAtPc
    /\ OpAt = "JMP"
    /\ program[At + 2] = PADDING

\* the program ends inside the instruction at pc
TruncatedAtPc ==
    /\ ~AtEnd
    /\ ~InProgram(At + OperandsFetched(OpAt))

\* C16: a step on an instruction whose operand bytes lie at or past the end
\* of the program does not end the process: program is not indexed at or
\* past its length, and the call ends.
C16_TruncationChecked ==
    [][((run_once \/ run_loop) /\ TruncatedAtPc)
          => /\ panicked' = "no"
             /\ running' = "no"]_vars

\* the process has died indexing program at its length, on a LOAD whose
\* last byte is missing
C16_ProgramIndexPanic ==
    /\ panicked = "program index out of bounds"
    /\ TruncatedAtPc
    /\ OpAt = "LOAD"
    /\ Len(program) = At + 3

\* C17: whenever assemble returns bytes, parse_program consumed the whole
\* source: what it left over holds no character that is not whitespace.
C17_NoSilentTruncation ==
    executable.tag = "Some" =>
        Trim(parse_program(executable.source).rest) = <<>>

\* assemble has returned header and one HLT for "hlt !", dropping the "!"
C17_LeftoverDropped ==
    /\ executable.tag = "Some"
    /\ executable.source = SrcLeftover
    /\ Len(executable.bytes) = BIN_HEADER_LENGTH + INSTRUCTION_SIZE
    /\ parse_program(SrcLeftover).rest = <<" ", "!">>

\* C18: an assemble call on a source that does not parse returns None and
\* leaves pass and symbol_table as they were, without ending the process.
C18_FailedParseLeavesAssembler ==
    [][\A prog \in Sources :
          (assemble(prog) /\ parse_program(prog).res # "Ok")
              => /\ executable'.tag = "None"
                 /\ panicked' = "no"
                 /\ UNCHANGED <<pass, symbol_table>>]_vars

\* the process has died in parse_register on "load $256 #1": assemble
\* returned nothing, not even None
C18_ParsePanicked ==
    /\ panicked = "unwrap on Err"
    /\ parse_program(SrcBigRegister).res = "Panic"
    /\ \A prog \in Sources \ {SrcBigRegister} :
           parse_program(prog).res # "Panic"

\* where parse_program returns Err, assemble returns None and leaves pass
\* and symbol_table as they were, also after an earlier assemble that
\* succeeded
FailedParseReturnsNone ==
    [][\A prog \in Sources :
          (assemble(prog) /\ parse_program(prog).res \in {"Error", "Failure"})
              => /\ executable'.tag = "None"
                 /\ panicked' = "no"
                 /\ UNCHANGED <<pass, symbol_table>>]_vars

\* how many bytes of its record a token occupies
Occupies(t) ==
    CASE IsNone(t) -> 0
      [] t.type = "IntegerOperand" -> 2
      [] OTHER -> 1

\* C19: in the record to_bytes returns, every position behind the opcode
\* byte and the operand bytes is 0xFF: [op, FF, FF, FF] for an opcode
\* alone, [op, r, FF, FF] with one register, [op, r1, r2, FF] with two,
\* and four 0xFF for a record with a directive and nothing else.
C19_PaddingIsFF ==
    (encoded # <<>> /\ panicked = "no") =>
        LET inst == instruction
            used == Occupies(inst.opcode) + Occupies(inst.operand1)
                        + Occupies(inst.operand2) + Occupies(inst.operand3)
            op == OpcodeAsU8(inst.opcode.op)
            only(t) == /\ ~IsNone(inst.opcode)
                       /\ \A o \in {inst.operand1, inst.operand2,
                                     inst.operand3} \ t : IsNone(o)
        IN  /\ Len(encoded) = IF used < 4 THEN 4 ELSE used
            /\ \A i \in (used + 1)..4 : encoded[i] = 255
            /\ only({}) => encoded = <<op, 255, 255, 255>>
            /\ (/\ ~IsNone(inst.opcode)
                /\ inst.operand1.type = "Register"
                /\ IsNone(inst.operand2) /\ IsNone(inst.operand3))
                   => encoded = <<op, inst.operand1.reg, 255, 255>>
            /\ (/\ ~IsNone(inst.opcode)
                /\ inst.operand1.type = "Register"
                /\ inst.operand2.type = "Register"
                /\ IsNone(inst.operand3))
                   => encoded = <<op, inst.operand1.reg, inst.operand2.reg,
                                  255>>
            /\ (used = 0 /\ ~IsNone(inst.directive))
                   => encoded = <<255, 255, 255, 255>>

\* to_bytes has encoded eq $0 $0: the register bytes are 0, the last is 0xFF
C19_TwoRegistersPadded ==
    /\ instruction = AssemblyInstruction(OpcodeToken("EQ"), Register(0),
                                         Register(0), None)
    /\ encoded = <<9, 0, 0, 255>>

Declared(p) == {LabelOf(p[k]) : k \in 1..Len(p)} \ {""}

\* C22: after run_pass1 over a Program, the symbol table holds every label
\* a record declares, at offset 4 * i for the record's zero-based position
\* i (the last such record if several declare the name), directive records
\* counted like instruction records; it gains no other entry and keeps the
\* entries it had; pass is Second.
C22_Pass1Offsets ==
    [][passes' # passes =>
          LET p == prog_instructions'
          IN  /\ pass' = "Second"
              /\ DOMAIN symbol_table' = DOMAIN symbol_table \cup Declared(p)
              /\ \A k \in 1..Len(p) :
                     (/\ LabelOf(p[k]) # ""
                      /\ \A j \in (k + 1)..Len(p) :
                             LabelOf(p[j]) # LabelOf(p[k]))
                         => symbol_table'[LabelOf(p[k])] = 4 * (k - 1)
              /\ \A n \in DOMAIN symbol_table \ Declared(p) :
                     symbol_table'[n] = symbol_table[n]]_vars

\* pass 1 has walked a directive, a directive that declares start and a
\* hlt that declares done: start is at 4 and done at 8
C22_LabelsAfterDirective ==
    /\ pass = "Second"
    /\ Len(prog_instructions) = 3
    /\ IsNone(prog_instructions[1].opcode)
    /\ IsNone(prog_instructions[2].opcode)
    /\ DOMAIN symbol_table = {"start", "done"}
    /\ symbol_table["start"] = 4
    /\ symbol_table["done"] = 8

\* record i of p names, as its first operand, the label that the later
\* record j declares
ForwardReference(p, i, j) ==
    /\ i < j
    /\ p[i].operand1.type = "LabelUsage"
    /\ LabelOf(p[j]) = p[i].operand1.name
    /\ \A k \in 1..Len(p) : k # j => LabelOf(p[k]) # LabelOf(p[j])

\* C21: pass 2 resolves a label-usage operand to the offset pass 1
\* recorded: when record i uses the label that a later record j declares,
\* run_pass2 returns the bytes, and the operand bytes of record i carry
\* 4 * j (positions counted from zero).
C21_ForwardReferenceResolved ==
    [][(passes' = passes /\ <<encoded, panicked>>' # <<encoded, panicked>>) =>
          LET p == prog_instructions
          IN  \A i \in 1..Len(p), j \in 1..Len(p) :
                  ForwardReference(p, i, j) =>
                      /\ panicked' = "no"
                      /\ Len(encoded') = INSTRUCTION_SIZE * Len(p)
                      /\ 4 * (j - 1) \in
                             {encoded'[INSTRUCTION_SIZE * (i - 1) + k] :
                                  k \in 2..INSTRUCTION_SIZE}]_vars

\* run_pass2 was given JMP @done followed by the record declaring done, and
\* stopped in the unimplemented arm of Token::to_bytes
C21_LabelUsageNotImplemented ==
    /\ panicked = "not implemented"
    /\ Len(prog_instructions) = 2
    /\ ForwardReference(prog_instructions, 1, 2)
    /\ symbol_table = [n \in {"done"} |-> 4]

\* the variants of enum Opcode
Opcodes == Range(OpcodeNames) \cup {"IGL"}

\* C23: decoding is total.  Whatever byte a step finds at pc, it executes
\* exactly one Opcode: the one whose numeric code the byte is, and IGL for
\* every byte that is no opcode's code (255 included).  The step fails for
\* no byte but that of DIV, whose divisor register is zero here.
C23_DecodingTotal ==
    [][(steps' = steps + 1 \/ panicked' # panicked) =>
          LET v == program[UsizeVal(pc) + 1]
              coded == {op \in Opcodes : OpcodeAsU8(op) = v}
          IN  IF panicked' # "no"
              THEN coded = {"DIV"} /\ panicked' = "divide by zero"
              ELSE /\ last'.op \in Opcodes
                   /\ coded # {} => coded = {last'.op}
                   /\ (coded = {} \/ v = 255) => last'.op = "IGL"]_vars

\* the byte 200, the code of no opcode, was executed as IGL
C23_UnknownByteIsIgl ==
    /\ program = <<200, 0, 0, 0>>
    /\ last.op = "IGL"
    /\ last.at = 0
    /\ panicked = "no"

\* the opcode whose mnemonic the source text src is, in any case mix
Named(src) ==
    InstructionSet[CHOOSE i \in DOMAIN InstructionSetMnemonics :
                       InstructionSetMnemonics[i] = to_uppercase(src)]

\* the opcode byte of the one instruction of the executable
AssembledCode == executable.bytes[BIN_HEADER_LENGTH + 1]

\* the mappings agree on the mnemonics of the opcodes in names: a mnemonic
\* in any case mix assembles to a code that is not IGL's, that decodes to
\* the opcode named, and that is the code of no other opcode
MappingsConsistent(names) ==
    (/\ executable.tag = "Some"
     /\ executable.source \in MnemonicSources
     /\ Named(executable.source) \in names)
        => /\ AssembledCode # IGL_CODE
           /\ OpcodeFromU8(AssembledCode) = Named(executable.source)
           /\ \A other \in Opcodes \ {Named(executable.source)} :
                  OpcodeAsU8(other) # AssembledCode

\* C24: the opcode mappings are consistent for every opcode of the
\* instruction set, HLT .. ALOC, INC and DEC: the codes are pairwise
\* distinct, a code decodes to its opcode, and the mnemonic in any mix of
\* upper and lower case maps to that opcode, never to IGL.
C24_MappingsConsistent == MappingsConsistent(Range(InstructionSet))

\* the same for the opcodes that enum Opcode declares
DeclaredOpcodesConsistent == MappingsConsistent(Range(OpcodeNames))

\* "iNc" was assembled, and the opcode byte is IGL's
C24_IncIsIllegal ==
    /\ executable.tag = "Some"
    /\ executable.source = <<"i", "N", "c">>
    /\ AssembledCode = IGL_CODE
    /\ OpcodeFromStr(executable.source) = "IGL"

\* a step that executes ALOC R with registers[R] >= 0 leaves the heap
\* longer by exactly registers[R], the new bytes 0 and the old ones as
\* they were
AlocGrows ==
    (/\ steps' = steps + 1
     /\ panicked' = "no"
     /\ OpAt = "ALOC"
     /\ registers[program[At + 2]] >= 0)
        => /\ Len(heap') = Len(heap) + registers[program[At + 2]]
           /\ \A i \in 1..Len(heap) : heap'[i] = heap[i]
           /\ \A i \in (Len(heap) + 1)..Len(heap') : heap'[i] = 0

\* C25: ALOC R with reg[R] = n >= 0 grows the heap from h to exactly h + n
\* bytes, every new byte 0 and the first h bytes unchanged; and over any
\* sequence of run_once / run / add_bytes steps the heap never gets
\* shorter.
C25_HeapOnlyGrows ==
    [][AlocGrows /\ Len(heap') >= Len(heap)]_vars

\* the part of the claim about registers that are not negative
AlocGrowsByRegister == [][AlocGrows]_vars

\* ALOC read -2 from its register and left the heap empty: the two bytes
\* allocated before are gone
C25_HeapShrank ==
    /\ last.op = "ALOC"
    /\ last.a = -2
    /\ heap = <<>>
    /\ panicked = "no"
    /\ ~overflow_checks

\* the code section assembled from src is all the VM has loaded
CodeLoaded(src) ==
    /\ executable.tag = "Some"
    /\ executable.source = src
    /\ program = Drop(executable.bytes, BIN_HEADER_LENGTH)

\* registers, flag, remainder and heap as VM::new() leaves them, but for
\* register r, which holds v
OnlyRegister(r, v) ==
    /\ registers = [i \in 0..(MAX_REGISTERS - 1) |-> IF i = r THEN v ELSE 0]
    /\ ~equal_flag
    /\ remainder = AsU32(0)
    /\ heap = <<>>

\* C26: INC R increases reg[R] by exactly 1 and DEC R decreases it by
\* exactly 1, and nothing else changes: once the VM is past the second
\* instruction of load $9 #10 / inc $9, register 9 holds 11, and past that
\* of load $9 #22 / dec $9 it holds 21, the other registers, equal_flag,
\* remainder and heap being as in a fresh VM.
C26_IncDecByOne ==
    /\ (CodeLoaded(SrcInc) /\ UsizeVal(pc) > INSTRUCTION_SIZE)
           => OnlyRegister(9, 11)
    /\ (CodeLoaded(SrcDec) /\ UsizeVal(pc) > INSTRUCTION_SIZE)
           => OnlyRegister(9, 21)

\* the instruction assembled from inc $9 was executed as IGL and left 10 in
\* register 9
C26_IncExecutedAsIgl ==
    /\ CodeLoaded(SrcInc)
    /\ last.op = "IGL"
    /\ last.at = INSTRUCTION_SIZE
    /\ OnlyRegister(9, 10)

\* C27: immediate encoding and decoding are inverse and big-endian.  For v
\* in 0..65535 the operand bytes of LOAD $0 #v are v / 256, v mod 256, and
\* the VM's 16-bit fetch of them yields v again (the value LOAD leaves in
\* the register); an operand outside that range is encoded as its low 16
\* bits.
C27_ImmediateRoundTrip ==
    (encoded # <<>> /\ instruction.operand2.type = "IntegerOperand") =>
        LET v == instruction.operand2.v
            low == IF v >= 0 THEN v % 65536 ELSE 65536 - ((-(v + 1)) % 65536) - 1
        IN  /\ encoded = <<1, 0, low \div 256, low % 256>>
            /\ v \in 0..65535 => low = v
            /\ (program = encoded /\ last.op = "LOAD" /\ v \in 0..65535)
                   => last.a = v /\ registers[0] = v

\* LOAD $0 #0xFFEE was encoded as 1, 0, 0xFF, 0xEE, and the VM loaded 0xFFEE
\* from these bytes
C27_HighByteFirst ==
    /\ instruction.operand2 = IntegerOperand(65518)
    /\ program = <<1, 0, 255, 238>>
    /\ program = encoded
    /\ last.op = "LOAD"
    /\ registers[0] = 65518

\* The instructions parse_program returns for each source, assembled by
\* hand (opcode byte, operand bytes, 0xFF up to four bytes), and what a
\* fresh VM given these bytes holds when its first run() returns: pc, the
\* registers that are not 0, and equal_flag.  stops is false where that run
\* does not return (JMP $31 jumps to offset 0 again and again).
HandAssembled ==
    {[src |-> SrcSum, stops |-> TRUE, pc |-> 13, flag |-> FALSE,
      bytes |-> <<1, 0, 0, 20, 1, 1, 0, 30, 2, 0, 1, 2, 0, 255, 255, 255>>,
      regs |-> {<<0, 20>>, <<1, 30>>, <<2, 50>>}],
     [src |-> SrcHlt, stops |-> TRUE, pc |-> 1, flag |-> FALSE,
      bytes |-> <<0, 255, 255, 255>>, regs |-> {}],
     [src |-> SrcLeftover, stops |-> TRUE, pc |-> 1, flag |-> FALSE,
      bytes |-> <<0, 255, 255, 255>>, regs |-> {}],
     [src |-> SrcJmp, stops |-> FALSE, pc |-> 0, flag |-> FALSE,
      bytes |-> <<6, 31, 255, 255, 0, 255, 255, 255>>, regs |-> {}],
     [src |-> SrcEq, stops |-> TRUE, pc |-> 4, flag |-> TRUE,
      bytes |-> <<9, 0, 1, 255>>, regs |-> {}],
     [src |-> SrcWide, stops |-> TRUE, pc |-> 4, flag |-> FALSE,
      bytes |-> <<1, 1, 0, 0>>, regs |-> {}],
     [src |-> SrcUnknown, stops |-> TRUE, pc |-> 1, flag |-> FALSE,
      bytes |-> <<255, 1, 255, 255>>, regs |-> {}],
     [src |-> SrcInc, stops |-> TRUE, pc |-> 5, flag |-> FALSE,
      bytes |-> <<1, 9, 0, 10, 255, 9, 255, 255>>, regs |-> {<<9, 10>>}],
     [src |-> SrcDec, stops |-> TRUE, pc |-> 5, flag |-> FALSE,
      bytes |-> <<1, 9, 0, 22, 255, 9, 255, 255>>, regs |-> {<<9, 22>>}]}

\* C28: for a Program that parse_program returns, the bytes of
\* Program::to_bytes, loaded without header into a fresh VM, are the
\* hand-assembled bytes of the same instructions, and when the run of them
\* returns, registers, equal_flag and remainder (and pc) are those of the
\* run of the hand-assembled bytes.
C28_RunsAsHandAssembled ==
    [][\A hand \in HandAssembled :
           CodeLoaded(hand.src) =>
               /\ program = hand.bytes
               /\ (run_loop /\ running = "fresh" /\ running' = "no") =>
                      /\ hand.stops
                      /\ pc' = USize(hand.pc)
                      /\ registers' =
                             [i \in 0..(MAX_REGISTERS - 1) |->
                                 IF \E rv \in hand.regs : rv[1] = i
                                 THEN (CHOOSE rv \in hand.regs : rv[1] = i)[2]
                                 ELSE 0]
                      /\ equal_flag' = hand.flag
                      /\ remainder' = AsU32(0)]_vars

\* the code section of the sum program was loaded without header and run:
\* the run stopped on the HLT at offset 12 with 20, 30 and 50 in registers
\* 0, 1 and 2
C28_SumRanToHlt ==
    /\ CodeLoaded(SrcSum)
    /\ running = "no"
    /\ last.op = "HLT"
    /\ last.at = 3 * INSTRUCTION_SIZE
    /\ pc = USize(13)
    /\ registers[0] = 20 /\ registers[1] = 30 /\ registers[2] = 50

\* has the record no operand
NoOperands(inst) ==
    IsNone(inst.operand1) /\ IsNone(inst.operand2) /\ IsNone(inst.operand3)

\* C29: to_bytes of a record with neither opcode nor directive fails on its
\* assertion and returns no bytes, whereas a record with a directive and
\* no opcode or operand is encoded as exactly four 0xFF bytes.
C29_OpcodeOrDirective ==
    [][IsNone(instruction'.opcode) =>
          IF IsNone(instruction'.directive)
          THEN panicked' = "assembler panic" /\ encoded' = encoded
          ELSE NoOperands(instruction') =>
                   panicked' = "no" /\ encoded' = <<255, 255, 255, 255>>]_vars

\* to_bytes was called on a record that has operands but neither opcode nor
\* directive, and panicked before any call returned bytes
C29_AssertionFailed ==
    /\ panicked = "assembler panic"
    /\ IsNone(instruction.opcode)
    /\ IsNone(instruction.directive)
    /\ ~NoOperands(instruction)
    /\ encoded = <<>>

\* C30: a step that decodes HLT or an unrecognized opcode at offset k
\* leaves pc = k + 1 and registers, equal_flag, remainder and heap as they
\* were, and a run() in progress returns; every step fetches at pc, so the
\* next run() or run_once() fetches at k + 1.
C30_StopConsumesOpcodeOnly ==
    [][(steps' = steps + 1 /\ panicked' = "no") =>
          /\ last'.at = At
          /\ OpAt \in {"HLT", "IGL"} =>
                 /\ pc' = USize(At + 1)
                 /\ UNCHANGED <<registers, equal_flag, remainder, heap>>
                 /\ running # "no" => running' = "no"]_vars

\* the program starts with a HLT byte at offset 0, and a later step fetched
\* at offset 1: the operand bytes 2, 6, 0 of the HLT word and the byte
\* after them were executed as an ADD
C30_ResumedInsideWord ==
    /\ last.op = "ADD"
    /\ last.at = 1
    /\ program[1] = 0
    /\ panicked = "no"

\* C31: the register-count limit is enforced by the assembler: the parser
\* takes any register token $n, but assemble returns no bytes for a source
\* that names a register of 32..255, and the register operand byte of the
\* code section it returns is below 32.
C31_RegisterLimitInAssembler ==
    \A n \in 0..U8_MAX :
        executable.source = SrcLoadRegister(n) =>
            IF n >= MAX_REGISTERS
            THEN executable.tag = "None"
            ELSE /\ executable.tag = "Some"
                 /\ executable.bytes[BIN_HEADER_LENGTH + 2] < MAX_REGISTERS

\* what assemble does with any register number of a u8: the byte is emitted
\* as written
RegisterByteAsWritten ==
    \A n \in 0..U8_MAX :
        executable.source = SrcLoadRegister(n) =>
            /\ executable.tag = "Some"
            /\ Drop(executable.bytes, BIN_HEADER_LENGTH) = <<1, n, 0, 1>>

\* assemble returned the code section 1, 200, 0, 1 for load $200 #1
C31_Register200Emitted ==
    /\ executable.source = SrcLoadRegister(200)
    /\ executable.tag = "Some"
    /\ Drop(executable.bytes, BIN_HEADER_LENGTH) = <<1, 200, 0, 1>>
    /\ panicked = "no"

\* a step that executes one of the opcodes in ops leaves pc four bytes past
\* the opcode byte
AdvancesFour(ops) ==
    (steps' = steps + 1 /\ panicked' = "no" /\ OpAt \in ops)
        => pc' = USize(At + INSTRUCTION_SIZE)

\* C32: every executed instruction that does not transfer control leaves pc
\* exactly 4 bytes past its opcode byte: LOAD, ADD, SUB, MUL, DIV, ALOC, INC,
\* DEC, a JEQ executed with equal_flag false and a JNEQ executed with
\* equal_flag true, at offset k, end with pc = k + 4.
C32_NoTransferAdvancesFour ==
    [][AdvancesFour({"LOAD", "ADD", "SUB", "MUL", "DIV", "ALOC", "INC", "DEC"}
                        \cup (IF equal_flag THEN {"JNEQ"} ELSE {"JEQ"}))]_vars

\* the same for the opcodes that fetch three operand bytes
ThreeOperandBytesAdvanceFour ==
    [][AdvancesFour({"LOAD", "ADD", "SUB", "MUL", "DIV"})]_vars

\* JEQ at offset 0 found equal_flag false, did not jump, and left pc at 2,
\* on the first padding byte
C32_JeqLeftPcOnPadding ==
    /\ last.op = "JEQ"
    /\ last.at = 0
    /\ ~last.flag
    /\ pc = USize(2)
    /\ program[3] = 255

\* C33: equal_flag is false in a new VM, a step that executes a comparison
\* leaves it equal to the result of that comparison, and no other step
\* (any other instruction, a step at the end of the program, add_bytes, a
\* call of run) changes it: it always holds the result of the most recent
\* comparison, or false if there was none.
C33_FlagOfLastComparison ==
    /\ ~equal_flag
    /\ [][IF steps' = steps + 1 /\ panicked' = "no" /\ OpAt \in ComparisonOps
          THEN equal_flag' = Comparison(OpAt, registers[program[At + 2]],
                                        registers[program[At + 3]])
          ELSE equal_flag' = equal_flag]_vars

\* JEQ found the flag true, jumped, and the flag is still true
C33_FlagSurvivesJeq ==
    /\ last.op = "JEQ"
    /\ last.flag
    /\ equal_flag
    /\ pc = AsUsize(last.a)

RegisterOperandOffsets(op) ==
    IF op \in ArithmeticOps THEN {1, 2, 3}
    ELSE IF op \in ComparisonOps THEN {1, 2}
    ELSE IF op \in {"LOAD", "ALOC", "INC", "DEC", "JMP", "JMPF", "JMPB",
                    "JEQ", "JNEQ"} THEN {1}
    ELSE {}

\* the instruction fetched at pc is no jump, names registers of 0..31 only
\* and is no DIV by zero, in a program of whole 4-byte words
StraightLineStep ==
    /\ Len(program) % INSTRUCTION_SIZE = 0
    /\ OpAt \notin {"JMP", "JMPF", "JMPB", "JEQ", "JNEQ"}
    /\ \A i \in RegisterOperandOffsets(OpAt) :
           At + i < Len(program) => program[At + i + 1] < MAX_REGISTERS
    /\ ~(/\ OpAt = "DIV"
         /\ At + 2 < Len(program)
         /\ registers[program[At + 3]] = 0)

\* C35: in a program of whole words, a step on an instruction that is no
\* jump, names registers of 0..31 and divides by no zero completes with a
\* strictly greater pc, so that run() comes to HLT, an unrecognized opcode
\* or the end of the program within one step per program byte.
C35_StraightLineRunReachesTerminal ==
    [][(steps' = steps + 1 /\ StraightLineStep)
          => /\ panicked' = "no"
             /\ UsizeVal(pc') > UsizeVal(pc)
             /\ steps' <= Len(program)]_vars

\* a step that completes moves pc forward, and no more steps complete than
\* the program has bytes
CompletedStepsAdvance ==
    [][(steps' = steps + 1 /\ StraightLineStep /\ panicked' = "no")
          => /\ UsizeVal(pc') > UsizeVal(pc)
             /\ steps' <= Len(program)]_vars

\* ALOC $0 left pc on the third byte of its own word, which was fetched as
\* a LOAD whose immediate lies past the end of the program
C35_LoadAfterAlocCutShort ==
    /\ program = <<17, 0, 1, 0>>
    /\ last.op = "ALOC"
    /\ panicked = "program index out of bounds"

\* the shapes parse_instruction builds: an opcode alone, with one, two or
\* three registers, or with a register and a number
ParsedShape(inst) ==
    /\ ~IsNone(inst.opcode)
    /\ IsNone(inst.directive)
    /\ \/ NoOperands(inst)
       \/ /\ inst.operand1.type = "Register"
          /\ inst.operand2.type \in {"None", "Register", "IntegerOperand"}
          /\ inst.operand3.type = "Register"
                 => inst.operand2.type = "Register"
          /\ inst.operand2.type = "IntegerOperand" => IsNone(inst.operand3)
          /\ IsNone(inst.operand2) => IsNone(inst.operand3)

\* C36: to_bytes returns exactly 4 bytes for every record it encodes,
\* whatever operand tokens the record carries, never more: record i of a
\* Program starts at byte 4 * i.
C36_AlwaysFourBytes ==
    (encoded # <<>> /\ panicked = "no") => Len(encoded) = INSTRUCTION_SIZE

\* the records of the shapes the parsers build are encoded in 4 bytes
ParsedShapesAreFourBytes ==
    (encoded # <<>> /\ panicked = "no" /\ ParsedShape(instruction))
        => Len(encoded) = INSTRUCTION_SIZE

\* to_bytes has encoded LOAD with two numbers and a register: six bytes
C36_SixByteRecord ==
    /\ instruction = AssemblyInstruction(OpcodeToken("LOAD"),
                                         IntegerOperand(99),
                                         IntegerOperand(99), Register(0))
    /\ encoded = <<1, 0, 99, 0, 99, 0>>

\* C37: assemble accepts a line whose first word is alphabetic and no
\* mnemonic: it returns Some(bytes), the header followed by one 4-byte
\* record whose opcode byte is 255, the code of IGL; the VM that fetches
\* that byte decodes an unrecognized opcode and stops there, the call
\* returning with pc behind the byte.
C37_UnknownMnemonicAssembles ==
    /\ [](loads = 0 => panicked = "no")
    /\ [](executable # NoExecutable =>
             /\ executable.tag = "Some"
             /\ Len(executable.bytes) = BIN_HEADER_LENGTH + INSTRUCTION_SIZE
             /\ Take(executable.bytes, BIN_HEADER_LENGTH) = generate_header
             /\ AssembledCode = IGL_CODE)
    /\ [][(steps' = steps + 1 /\ At % INSTRUCTION_SIZE = 0)
             => /\ panicked' = "no"
                /\ last'.op = "IGL"
                /\ pc' = USize(At + 1)
                /\ running' = "no"
                /\ returned' # NotReturned
                /\ UNCHANGED <<registers, remainder, equal_flag, heap>>]_vars

\* "xt $1 #5" was assembled and its code section run: the VM stopped on the
\* byte 255
C37_UnknownWordStoppedVm ==
    /\ CodeLoaded(<<"x", "t", " ", "$", "1", " ", "#", "5">>)
    /\ program = <<255, 1, 0, 5>>
    /\ last.op = "IGL"
    /\ last.at = 0
    /\ returned # NotReturned

\* C38: a jump to a target outside the program brings neither a panic nor a
\* wrapped pc: a step that executes JMP, JEQ, JNEQ, JMPF or JMPB on a
\* register of 0..31 completes, and the pc it leaves is a small offset, not
\* the two's complement of a negative number.
C38_JumpOutsideIsHandled ==
    [][(/\ steps' = steps + 1
        /\ OpAt \in {"JMP", "JMPF", "JMPB", "JEQ", "JNEQ"}
        /\ CanReadRegister(At + 1))
          => /\ panicked' = "no"
             /\ pc'[1] = 0
             /\ pc'[2] = 0]_vars

\* a pc outside the program, wrapped or not, is the end of the program: the
\* step changes nothing and the call returns
StepOutsideReturns ==
    [][((run_once \/ run_loop) /\ AtEnd)
          => /\ UNCHANGED <<registers, pc, remainder, equal_flag, heap,
                            panicked, steps>>
             /\ running' = "no"
             /\ returned' # NotReturned]_vars

\* JMP $0 with -4 in the register left pc at 2^64 - 4
C38_JmpWrappedPc ==
    /\ last.op = "JMP"
    /\ registers[0] = -4
    /\ pc = <<MaxLimb, MaxLimb, MaxLimb, Limb - 4>>
    /\ panicked = "no"

====
